---- MODULE Spec2Model ----
(***************************************************************************)
(* ExpenseTrack: the in-memory data layer (MemStorage) and the REST        *)
(* handlers that sit on it, modelled to check the budget performance       *)
(* aggregation.                                                            *)
(*                                                                         *)
(* Amounts are integers (the code uses doubles; every amount the model     *)
(* feeds in is an integer).  Dates are points of a totally ordered         *)
(* timeline 0..MaxDate, compared as the code compares Date objects.        *)
(* Record fields that no modelled operation reads (description, merchant,  *)
(* notes, source, createdAt, email, password) are left out.                *)
(***************************************************************************)
EXTENDS Integers, Sequences, FiniteSets, Bags

(***************************************************************************)
(* Bounds of the model.                                                    *)
(***************************************************************************)
\* Last point of the timeline.
MaxDate == 4
\* Number of store-changing calls of the data layer explored after
\* construction.
MaxOps == 1
\* Number of requests whose handlers are suspended at an await at a time.
MaxInFlight == 2
\* The longest sequence of creates and deletes followed when ids are counted,
\* and the number of requests received.
MaxCalls == 2
\* The longest sequence of requests that make, allocate and delete categories.
MaxRequests == 3

Dates == 0..MaxDate

(***************************************************************************)
(* Program constants.                                                      *)
(***************************************************************************)
\* `x || null`: an absent optional id.  Ids start at 1, and `||` sends 0 to
\* null as well, so 0 stands for null.
null == 0
\* The id that createUser makes an admin.
AdminId == 2
\* The demo budget covers the current month: [first day, last day].
MonthStart == 1
MonthEnd == 3
\* Demo amounts.
GroceriesAmount == 12500
GasAmount == 22000
SalaryAmount == 150000
NetflixAmount == 6500
DemoTotalBudget == 300000
EverydayAllocation == 50000
TransportationAllocation == 30000
EntertainmentAllocation == 20000
\* The year of the month of the construction, and the points of the
\* timeline in a month: [MonthStart, MonthEnd], and the rest of the last
\* day.
ThisYear == 2025
DaysPerMonth == MonthEnd - MonthStart + 2

VARIABLES
    users, userRoles,
    expenses, incomes,
    expenseCategories, expenseSubcategories,
    incomeCategories, incomeSubcategories,
    budgets, budgetAllocations,
    nextUserId, nextExpenseId, nextIncomeId,
    nextExpenseCategoryId, nextExpenseSubcategoryId,
    nextIncomeCategoryId, nextIncomeSubcategoryId,
    nextBudgetId, nextBudgetAllocationId,
    ops,        \* store-changing calls made, or requests received, so far
    res,        \* the last operation or request and its outcome
    frame,      \* the getBudgetPerformance invocation suspended at an await
    handlers,   \* the request handlers suspended at an await
    seed        \* createDemoAccounts, which the constructor started

maps == <<users, userRoles, expenses, incomes, expenseCategories,
          expenseSubcategories, incomeCategories, incomeSubcategories,
          budgets, budgetAllocations>>
counters == <<nextUserId, nextExpenseId, nextIncomeId, nextExpenseCategoryId,
              nextExpenseSubcategoryId, nextIncomeCategoryId,
              nextIncomeSubcategoryId, nextBudgetId, nextBudgetAllocationId>>
store == <<maps, counters>>
vars == <<store, ops, res, frame, handlers, seed>>

(***************************************************************************)
(* Map<number, T>: a function from the live ids.  Iteration is in          *)
(* insertion order, which is ascending id order: ids come from a counter   *)
(* that only grows, and set() on an existing key keeps its position.       *)
(***************************************************************************)
EmptyMap == [i \in {} |-> null]

MapSet(m, id, v) == [i \in DOMAIN m \cup {id} |-> IF i = id THEN v ELSE m[i]]

MapDelete(m, id) == [i \in DOMAIN m \ {id} |-> m[i]]

\* The ids of S in ascending order.
Ascending(S) ==
    IF S = {} THEN <<>>
    ELSE LET hi == CHOOSE x \in S : \A y \in S : y <= x
             Test(i) == i \in S
         IN  SelectSeq([i \in 1..hi |-> i], Test)

\* Array.from(m.values())
MapValues(m) ==
    LET ids == Ascending(DOMAIN m)
    IN  [k \in 1..Len(ids) |-> m[ids[k]]]

\* `!x` for a looked-up record: Map.get and Array.find give undefined when
\* nothing is found.
undefined == [id |-> null]

(***************************************************************************)
(* createDefaultCategories: the category tree every new account is given.  *)
(* A subcategory is listed with the position of its category; the          *)
(* subcategories of a category are created right after it, in this order.  *)
(* Entertainment has no "Subscriptions" subcategory, so the demo's Netflix *)
(* expense is not created.                                                 *)
(***************************************************************************)
DefaultExpenseCategories ==
    <<"Children", "Debt", "Education", "Entertainment", "Everyday", "Gifts",
      "Health/medical", "Home", "Insurance", "Pets", "Technology",
      "Transportation", "Travel", "Utilities">>

DefaultExpenseSubcategories ==
    << <<1, "Activities">>, <<1, "Allowance">>, <<1, "Medical">>,
       <<1, "Childcare">>, <<1, "Clothing">>, <<1, "School">>, <<1, "Toys">>,
       <<2, "Credit cards">>, <<2, "Student loans">>, <<2, "Other loans">>,
       <<2, "Taxes (federal)">>, <<2, "Taxes (state)">>, <<2, "Other">>,
       <<3, "Tuition">>, <<3, "Books">>, <<3, "Music lessons">>, <<3, "Other">>,
       <<4, "Books">>, <<4, "Concerts/shows">>, <<4, "Games">>, <<4, "Hobbies">>,
       <<4, "Movies">>, <<4, "Music">>, <<4, "Outdoor activities">>,
       <<4, "Photography">>, <<4, "Sports">>, <<4, "Theater/plays">>,
       <<4, "TV">>, <<4, "Other">>,
       <<5, "Groceries">>, <<5, "Restaurants">>, <<5, "Personal supplies">>,
       <<5, "Clothes">>, <<5, "Laundry/dry cleaning">>, <<5, "Hair/beauty">>,
       <<5, "Subscriptions">>, <<5, "Other">>,
       <<6, "Gifts">>, <<6, "Donations (charity)">>, <<6, "Other">>,
       <<7, "Doctors/dental/vision">>, <<7, "Specialty care">>,
       <<7, "Pharmacy">>, <<7, "Emergency">>, <<7, "Other">>,
       <<8, "Rent/mortgage">>, <<8, "Property taxes">>, <<8, "Furnishings">>,
       <<8, "Lawn/garden">>, <<8, "Supplies">>, <<8, "Maintenance">>,
       <<8, "Improvements">>, <<8, "Moving">>, <<8, "Other">>,
       <<9, "Car">>, <<9, "Health">>, <<9, "Home">>, <<9, "Life">>,
       <<9, "Other">>,
       <<10, "Food">>, <<10, "Vet/medical">>, <<10, "Toys">>,
       <<10, "Supplies">>, <<10, "Other">>,
       <<11, "Domains & hosting">>, <<11, "Online services">>,
       <<11, "Hardware">>, <<11, "Software">>, <<11, "Other">>,
       <<12, "Fuel">>, <<12, "Car payments">>, <<12, "Repairs">>,
       <<12, "Registration/license">>, <<12, "Supplies">>,
       <<12, "Public transit">>, <<12, "Other">>,
       <<13, "Airfare">>, <<13, "Hotels">>, <<13, "Food">>,
       <<13, "Transportation">>, <<13, "Entertainment">>, <<13, "Other">>,
       <<14, "Phone">>, <<14, "TV">>, <<14, "Internet">>,
       <<14, "Electricity">>, <<14, "Heat/gas">>, <<14, "Water">>,
       <<14, "Trash">>, <<14, "Other">> >>

DefaultIncomeCategories == <<"Wages", "Other">>

DefaultIncomeSubcategories ==
    << <<1, "Paycheck">>, <<1, "Tips">>, <<1, "Bonus">>, <<1, "Commission">>,
       <<1, "Other">>,
       <<2, "Transfer from savings">>, <<2, "Interest income">>,
       <<2, "Dividends">>, <<2, "Gifts">>, <<2, "Refunds">>, <<2, "Other">> >>

\* The creates of one of the two nested loops of createDefaultCategories, in
\* the order in which they are awaited: each category, then its
\* subcategories.
RECURSIVE DefaultCreates(_, _, _, _)
DefaultCreates(kind, names, subs, i) ==
    IF i > Len(names) THEN <<>>
    ELSE LET Test(s) == s[1] = i
             own == SelectSeq(subs, Test)
         IN  <<[kind |-> kind, sub |-> FALSE, name |-> names[i]]>>
             \o [k \in 1..Len(own) |->
                    [kind |-> kind, sub |-> TRUE, name |-> own[k][2]]]
             \o DefaultCreates(kind, names, subs, i + 1)

\* Every await of createDefaultCategories.
DefaultTasks ==
    DefaultCreates("expense", DefaultExpenseCategories,
                   DefaultExpenseSubcategories, 1)
    \o DefaultCreates("income", DefaultIncomeCategories,
                      DefaultIncomeSubcategories, 1)

(***************************************************************************)
(* The state when `new MemStorage()` returns.  The constructor empties the *)
(* maps, sets every counter to 1 and calls createDemoAccounts without      *)
(* awaiting it: that method has looked for the user demo, found none, and  *)
(* is suspended at its first await.  seed is its frame: the await it is    *)
(* suspended at and its locals.                                            *)
(***************************************************************************)
\* The awaits of createDemoAccounts in program order; "returned" stands for
\* the end of the method.
Awaits ==
    <<"getUserByUsername(demo)", "createUser(demo)",
      "createDefaultCategories(user)", "getExpenseCategories",
      "getExpenseSubcategories(foodCategory)",
      "getExpenseSubcategories(transportCategory)",
      "getExpenseSubcategories(entertainmentCategory)",
      "createExpense(Groceries)", "createExpense(Gas)", "createExpense(Netflix)",
      "getIncomeCategories", "getIncomeSubcategories(wagesCategory)",
      "createIncome", "createBudget",
      "createBudgetAllocation(foodCategory)",
      "createBudgetAllocation(transportCategory)",
      "createBudgetAllocation(entertainmentCategory)",
      "getUserByUsername(admin)", "createUser(admin)",
      "createDefaultCategories(admin)", "returned">>

\* No invocation of getBudgetPerformance is suspended.
NoFrame ==
    [pc |-> "idle", budgetId |-> null, budget |-> undefined,
     allocations |-> <<>>, expenses |-> <<>>, existed |-> {},
     before |-> undefined, result |-> undefined]

\* The dates of the demo expenses made "1 day ago" and "3 days ago", against
\* the budget of the current month [MonthStart, MonthEnd], where MonthEnd
\* is the first instant of the last day of the month: the clock at
\* construction decides.  Both may lie before the month or inside it, at
\* most one of them on its first instant.  "1 day ago" is on or after
\* MonthEnd only on a last day of the month that is longer than 24 hours,
\* and "3 days ago" is inside the month then.
DemoClock ==
    {c \in Dates \X Dates :
        /\ c[2] <= c[1]
        /\ c[1] <= MonthEnd + 1
        /\ (c[1] = c[2] => c[1] # MonthStart)
        /\ (c[1] >= MonthEnd => (MonthStart < c[2] /\ c[2] < MonthEnd))}

Init ==
    /\ users = EmptyMap
    /\ userRoles = EmptyMap
    /\ expenses = EmptyMap
    /\ incomes = EmptyMap
    /\ expenseCategories = EmptyMap
    /\ expenseSubcategories = EmptyMap
    /\ incomeCategories = EmptyMap
    /\ incomeSubcategories = EmptyMap
    /\ budgets = EmptyMap
    /\ budgetAllocations = EmptyMap
    /\ nextUserId = 1
    /\ nextExpenseId = 1
    /\ nextIncomeId = 1
    /\ nextExpenseCategoryId = 1
    /\ nextExpenseSubcategoryId = 1
    /\ nextIncomeCategoryId = 1
    /\ nextIncomeSubcategoryId = 1
    /\ nextBudgetId = 1
    /\ nextBudgetAllocationId = 1
    /\ ops = 0
    /\ res = [op |-> "constructor", user |-> null, id |-> null, status |-> 0,
              called |-> FALSE, threw |-> FALSE, value |-> undefined]
    /\ frame = NoFrame
    /\ handlers = EmptyBag
    /\ seed = [at |-> 1, task |-> 0, demoUser |-> undefined, adminUser |-> undefined,
               user |-> null, category |-> null,
               foodCategory |-> null, transportCategory |-> null,
               entertainmentCategory |-> null, groceriesSubcategory |-> null,
               fuelSubcategory |-> null, subscriptionsSubcategory |-> null,
               wagesCategory |-> null, paycheckSubcategory |-> null,
               date |-> <<>>, currentMonth |-> null, currentYear |-> null,
               budget |-> null]

(***************************************************************************)
(* MemStorage: the readers used by the budget performance computation.     *)
(***************************************************************************)
getBudgetById(id) == IF id \in DOMAIN budgets THEN budgets[id] ELSE undefined

\* Mutant: the budgetId filter is forgotten.
getAllBudgetAllocations(budgetId) == MapValues(budgetAllocations)

getBudgetAllocations(budgetId) ==
    LET Test(allocation) == allocation.budgetId = budgetId
    IN  SelectSeq(MapValues(budgetAllocations), Test)

\* Mutant: the userId filter is forgotten.
getExpensesOfAnyUser(userId) == MapValues(expenses)

\* Mutant: the expenses filed under the user's categories are the user's too.
getExpensesInCategoriesOfUser(userId) ==
    LET Test(expense) ==
            \/ expense.userId = userId
            \/ /\ expense.categoryId \in DOMAIN expenseCategories
               /\ expenseCategories[expense.categoryId].userId = userId
    IN  SelectSeq(MapValues(expenses), Test)

getExpensesByUserId(userId) ==
    LET Test(expense) == expense.userId = userId
    IN  SelectSeq(MapValues(expenses), Test)

\* categoryTotals.get(k) || 0
GetOrZero(m, k) == IF k \in DOMAIN m THEN m[k] ELSE 0

\* Mutant: the end of the period is not checked.
InBudgetPeriodNoEnd(expense, budget) == expense.date >= budget.startDate

\* expenseDate >= budget.startDate && expenseDate <= budget.endDate
InBudgetPeriod(expense, budget) ==
    expense.date >= budget.startDate /\ expense.date <= budget.endDate

BudgetExpenses(userExpenses, budget) ==
    LET Test(expense) == InBudgetPeriod(expense, budget)
    IN  SelectSeq(userExpenses, Test)

\* Mutant: the reducer drops the running sum.
TotalAllocatedNotAccumulated(allocations) ==
    IF allocations = <<>> THEN 0 ELSE allocations[Len(allocations)].amount

\* allocations.reduce((sum, allocation) => sum + allocation.amount, 0)
RECURSIVE TotalAllocated(_)
TotalAllocated(allocations) ==
    IF allocations = <<>> THEN 0
    ELSE TotalAllocated(SubSeq(allocations, 1, Len(allocations) - 1))
            + allocations[Len(allocations)].amount

\* Mutant: an expense filed under a subcategory is charged to no category.
RECURSIVE CategoryTotalsOfUnfiledExpenses(_)
CategoryTotalsOfUnfiledExpenses(budgetExpenses) ==
    IF budgetExpenses = <<>> THEN EmptyMap
    ELSE LET before == CategoryTotalsOfUnfiledExpenses(
                            SubSeq(budgetExpenses, 1, Len(budgetExpenses) - 1))
             expense == budgetExpenses[Len(budgetExpenses)]
             currentTotal == GetOrZero(before, expense.categoryId)
         IN  IF expense.subcategoryId # null THEN before
             ELSE MapSet(before, expense.categoryId, currentTotal + expense.amount)

\* The loop that groups the expenses of the period by category.
RECURSIVE CategoryTotals(_)
CategoryTotals(budgetExpenses) ==
    IF budgetExpenses = <<>> THEN EmptyMap
    ELSE LET before == CategoryTotals(SubSeq(budgetExpenses, 1, Len(budgetExpenses) - 1))
             expense == budgetExpenses[Len(budgetExpenses)]
             currentTotal == GetOrZero(before, expense.categoryId)
         IN  MapSet(before, expense.categoryId, currentTotal + expense.amount)

\* Mutant: the subtraction is the wrong way round.
CategoryEntrySwapped(allocation, categoryTotals) ==
    LET spent == GetOrZero(categoryTotals, allocation.categoryId)
    IN  [categoryId |-> allocation.categoryId,
         allocated |-> allocation.amount,
         spent |-> spent,
         remaining |-> spent - allocation.amount]

\* One element of allocations.map(...)
CategoryEntry(allocation, categoryTotals) ==
    LET spent == GetOrZero(categoryTotals, allocation.categoryId)
    IN  [categoryId |-> allocation.categoryId,
         allocated |-> allocation.amount,
         spent |-> spent,
         remaining |-> allocation.amount - spent]

\* Mutant: categories with spending but no allocation get an entry too.
CategoryPerformanceWithUnallocated(allocations, categoryTotals) ==
    LET allocated == {allocations[k].categoryId : k \in 1..Len(allocations)}
        extra == Ascending(DOMAIN categoryTotals \ allocated)
    IN  [k \in 1..Len(allocations) |->
            LET spent == GetOrZero(categoryTotals, allocations[k].categoryId)
            IN  [categoryId |-> allocations[k].categoryId,
                 allocated |-> allocations[k].amount,
                 spent |-> spent,
                 remaining |-> allocations[k].amount - spent]]
        \o [k \in 1..Len(extra) |->
            [categoryId |-> extra[k], allocated |-> 0,
             spent |-> categoryTotals[extra[k]],
             remaining |-> 0 - categoryTotals[extra[k]]]]

CategoryPerformance(allocations, categoryTotals) ==
    [k \in 1..Len(allocations) |-> CategoryEntry(allocations[k], categoryTotals)]

\* categoryPerformance.reduce((sum, cat) => sum + cat.spent, 0)
RECURSIVE TotalSpent(_)
TotalSpent(categoryPerformance) ==
    IF categoryPerformance = <<>> THEN 0
    ELSE TotalSpent(SubSeq(categoryPerformance, 1, Len(categoryPerformance) - 1))
            + categoryPerformance[Len(categoryPerformance)].spent

\* Mutant: remaining is clamped at zero.
TotalRemainingClamped(totalAllocated, totalSpent) ==
    IF totalAllocated - totalSpent < 0 THEN 0 ELSE totalAllocated - totalSpent

TotalRemaining(totalAllocated, totalSpent) == totalAllocated - totalSpent

\* The value of a call: threw tells whether it ended in an exception.
getBudgetPerformance(budgetId) ==
    LET budget == getBudgetById(budgetId)
    IN  IF budget = undefined
        THEN [threw |-> TRUE, value |-> undefined]
        ELSE LET allocations == getBudgetAllocations(budgetId)
                 userExpenses == getExpensesByUserId(budget.userId)
                 budgetExpenses == BudgetExpenses(userExpenses, budget)
                 totalAllocated == TotalAllocated(allocations)
                 categoryTotals == CategoryTotals(budgetExpenses)
                 categoryPerformance == CategoryPerformance(allocations, categoryTotals)
                 totalSpent == TotalSpent(categoryPerformance)
                 totalRemaining == TotalRemaining(totalAllocated, totalSpent)
             IN  [threw |-> FALSE,
                  value |-> [allocated |-> totalAllocated,
                             spent |-> totalSpent,
                             remaining |-> totalRemaining,
                             categories |-> categoryPerformance]]

(***************************************************************************)
(* MemStorage: the methods that change expenses, budgets and allocations.  *)
(* Each is the effect of one call that does not throw; Throws tells when   *)
(* the call throws instead (and then changes nothing).                     *)
(***************************************************************************)
\* Mutant: the id is one more than the largest id in the map.
createExpenseAfterLargest(expenseData) ==
    LET id == IF DOMAIN expenses = {} THEN 1
              ELSE 1 + CHOOSE x \in DOMAIN expenses : \A y \in DOMAIN expenses : y <= x
    IN  /\ expenses' = MapSet(expenses, id,
                [id |-> id,
                 userId |-> expenseData.userId,
                 amount |-> expenseData.amount,
                 date |-> expenseData.date,
                 categoryId |-> expenseData.categoryId,
                 subcategoryId |-> expenseData.subcategoryId])
        /\ nextExpenseId' = id + 1
        /\ UNCHANGED <<users, userRoles, incomes, expenseCategories,
                       expenseSubcategories, incomeCategories, incomeSubcategories,
                       budgets, budgetAllocations>>
        /\ UNCHANGED <<nextUserId, nextIncomeId, nextExpenseCategoryId,
                       nextExpenseSubcategoryId, nextIncomeCategoryId,
                       nextIncomeSubcategoryId, nextBudgetId, nextBudgetAllocationId>>

createExpense(expenseData) ==
    /\ expenses' = MapSet(expenses, nextExpenseId,
            [id |-> nextExpenseId,
             userId |-> expenseData.userId,
             amount |-> expenseData.amount,
             date |-> expenseData.date,
             categoryId |-> expenseData.categoryId,
             subcategoryId |-> expenseData.subcategoryId])
    /\ nextExpenseId' = nextExpenseId + 1
    /\ UNCHANGED <<users, userRoles, incomes, expenseCategories,
                   expenseSubcategories, incomeCategories, incomeSubcategories,
                   budgets, budgetAllocations>>
    /\ UNCHANGED <<nextUserId, nextIncomeId, nextExpenseCategoryId,
                   nextExpenseSubcategoryId, nextIncomeCategoryId,
                   nextIncomeSubcategoryId, nextBudgetId, nextBudgetAllocationId>>

updateExpense(id, expenseData) ==
    /\ id \in DOMAIN expenses
    /\ expenses' = MapSet(expenses, id,
            [id |-> id,
             userId |-> expenseData.userId,
             amount |-> expenseData.amount,
             date |-> expenseData.date,
             categoryId |-> expenseData.categoryId,
             subcategoryId |-> expenseData.subcategoryId])
    /\ UNCHANGED <<users, userRoles, incomes, expenseCategories,
                   expenseSubcategories, incomeCategories, incomeSubcategories,
                   budgets, budgetAllocations>>
    /\ UNCHANGED counters

deleteExpense(id) ==
    /\ id \in DOMAIN expenses
    /\ expenses' = MapDelete(expenses, id)
    /\ UNCHANGED <<users, userRoles, incomes, expenseCategories,
                   expenseSubcategories, incomeCategories, incomeSubcategories,
                   budgets, budgetAllocations>>
    /\ UNCHANGED counters

createBudget(budgetData) ==
    /\ budgets' = MapSet(budgets, nextBudgetId,
            [id |-> nextBudgetId,
             userId |-> budgetData.userId,
             title |-> budgetData.title,
             startDate |-> budgetData.startDate,
             endDate |-> budgetData.endDate,
             totalBudget |-> budgetData.totalBudget])
    /\ nextBudgetId' = nextBudgetId + 1
    /\ UNCHANGED <<users, userRoles, expenses, incomes, expenseCategories,
                   expenseSubcategories, incomeCategories, incomeSubcategories,
                   budgetAllocations>>
    /\ UNCHANGED <<nextUserId, nextExpenseId, nextIncomeId, nextExpenseCategoryId,
                   nextExpenseSubcategoryId, nextIncomeCategoryId,
                   nextIncomeSubcategoryId, nextBudgetAllocationId>>

updateBudget(id, budgetData) ==
    /\ id \in DOMAIN budgets
    /\ budgets' = MapSet(budgets, id,
            [id |-> id,
             userId |-> budgets[id].userId,
             title |-> budgetData.title,
             startDate |-> budgetData.startDate,
             endDate |-> budgetData.endDate,
             totalBudget |-> budgetData.totalBudget])
    /\ UNCHANGED <<users, userRoles, expenses, incomes, expenseCategories,
                   expenseSubcategories, incomeCategories, incomeSubcategories,
                   budgetAllocations>>
    /\ UNCHANGED counters

\* Mutant: the allocations of every budget are deleted.
deleteBudgetAndEveryAllocation(id) ==
    /\ id \in DOMAIN budgets
    /\ budgetAllocations' = EmptyMap
    /\ budgets' = MapDelete(budgets, id)
    /\ UNCHANGED <<users, userRoles, expenses, incomes, expenseCategories,
                   expenseSubcategories, incomeCategories, incomeSubcategories>>
    /\ UNCHANGED counters

\* The allocations of the budget go with it.
deleteBudget(id) ==
    /\ id \in DOMAIN budgets
    /\ LET allocationsToDelete ==
               {a \in DOMAIN budgetAllocations : budgetAllocations[a].budgetId = id}
       IN  budgetAllocations' =
               [a \in DOMAIN budgetAllocations \ allocationsToDelete |->
                   budgetAllocations[a]]
    /\ budgets' = MapDelete(budgets, id)
    /\ UNCHANGED <<users, userRoles, expenses, incomes, expenseCategories,
                   expenseSubcategories, incomeCategories, incomeSubcategories>>
    /\ UNCHANGED counters

createBudgetAllocation(allocationData) ==
    /\ budgetAllocations' = MapSet(budgetAllocations, nextBudgetAllocationId,
            [id |-> nextBudgetAllocationId,
             budgetId |-> allocationData.budgetId,
             categoryId |-> allocationData.categoryId,
             subcategoryId |-> allocationData.subcategoryId,
             amount |-> allocationData.amount])
    /\ nextBudgetAllocationId' = nextBudgetAllocationId + 1
    /\ UNCHANGED <<users, userRoles, expenses, incomes, expenseCategories,
                   expenseSubcategories, incomeCategories, incomeSubcategories,
                   budgets>>
    /\ UNCHANGED <<nextUserId, nextExpenseId, nextIncomeId, nextExpenseCategoryId,
                   nextExpenseSubcategoryId, nextIncomeCategoryId,
                   nextIncomeSubcategoryId, nextBudgetId>>

updateBudgetAllocation(id, allocationData) ==
    /\ id \in DOMAIN budgetAllocations
    /\ budgetAllocations' = MapSet(budgetAllocations, id,
            [id |-> id,
             budgetId |-> allocationData.budgetId,
             categoryId |-> allocationData.categoryId,
             subcategoryId |-> allocationData.subcategoryId,
             amount |-> allocationData.amount])
    /\ UNCHANGED <<users, userRoles, expenses, incomes, expenseCategories,
                   expenseSubcategories, incomeCategories, incomeSubcategories,
                   budgets>>
    /\ UNCHANGED counters

deleteBudgetAllocation(id) ==
    /\ id \in DOMAIN budgetAllocations
    /\ budgetAllocations' = MapDelete(budgetAllocations, id)
    /\ UNCHANGED <<users, userRoles, expenses, incomes, expenseCategories,
                   expenseSubcategories, incomeCategories, incomeSubcategories,
                   budgets>>
    /\ UNCHANGED counters

\* Mutant: the expenses out of the budget's period are dropped from the map
\* instead of from a copy.
getBudgetPerformancePrunes(budgetId) ==
    /\ expenses' =
            IF budgetId \in DOMAIN budgets
            THEN [e \in {x \in DOMAIN expenses :
                            expenses[x].userId = budgets[budgetId].userId
                                => InBudgetPeriod(expenses[x], budgets[budgetId])}
                    |-> expenses[e]]
            ELSE expenses
    /\ UNCHANGED <<users, userRoles, incomes, expenseCategories,
                   expenseSubcategories, incomeCategories, incomeSubcategories,
                   budgets, budgetAllocations>>
    /\ UNCHANGED counters

\* getBudgetPerformance writes nothing: it only reads the three maps.
getBudgetPerformanceWritesNothing(budgetId) == UNCHANGED store

(***************************************************************************)
(* MemStorage: the methods that create and delete users, categories,       *)
(* subcategories and incomes.  Every create takes its id from the counter  *)
(* of its kind and increments the counter.  A delete that finds the        *)
(* record in use throws; a category or subcategory delete of an id that    *)
(* is not there changes nothing.                                           *)
(***************************************************************************)
\* The user with id 2 is made admin.
createUser(insertUser) ==
    /\ users' = MapSet(users, nextUserId,
            [id |-> nextUserId, username |-> insertUser.username,
             currency |-> "XAF",
             role |-> IF nextUserId = AdminId THEN "admin" ELSE "user"])
    /\ userRoles' = MapSet(userRoles, nextUserId,
            IF nextUserId = AdminId THEN "admin" ELSE "user")
    /\ nextUserId' = nextUserId + 1
    /\ UNCHANGED <<expenses, incomes, expenseCategories, expenseSubcategories,
                   incomeCategories, incomeSubcategories, budgets,
                   budgetAllocations>>
    /\ UNCHANGED <<nextExpenseId, nextIncomeId, nextExpenseCategoryId,
                   nextExpenseSubcategoryId, nextIncomeCategoryId,
                   nextIncomeSubcategoryId, nextBudgetId, nextBudgetAllocationId>>

createExpenseCategory(userId, category) ==
    /\ expenseCategories' = MapSet(expenseCategories, nextExpenseCategoryId,
            [id |-> nextExpenseCategoryId, userId |-> userId, name |-> category.name])
    /\ nextExpenseCategoryId' = nextExpenseCategoryId + 1
    /\ UNCHANGED <<users, userRoles, expenses, incomes, expenseSubcategories,
                   incomeCategories, incomeSubcategories, budgets,
                   budgetAllocations>>
    /\ UNCHANGED <<nextUserId, nextExpenseId, nextIncomeId,
                   nextExpenseSubcategoryId, nextIncomeCategoryId,
                   nextIncomeSubcategoryId, nextBudgetId, nextBudgetAllocationId>>

ExpenseCategoryInUse(id) ==
    \/ \E x \in DOMAIN expenses : expenses[x].categoryId = id
    \/ \E x \in DOMAIN expenseSubcategories : expenseSubcategories[x].categoryId = id

deleteExpenseCategory(id) ==
    /\ ~ExpenseCategoryInUse(id)
    /\ expenseCategories' = MapDelete(expenseCategories, id)
    /\ UNCHANGED <<users, userRoles, expenses, incomes, expenseSubcategories,
                   incomeCategories, incomeSubcategories, budgets,
                   budgetAllocations>>
    /\ UNCHANGED counters

createExpenseSubcategory(userId, subcategory) ==
    /\ expenseSubcategories' = MapSet(expenseSubcategories, nextExpenseSubcategoryId,
            [id |-> nextExpenseSubcategoryId, userId |-> userId,
             categoryId |-> subcategory.categoryId, name |-> subcategory.name])
    /\ nextExpenseSubcategoryId' = nextExpenseSubcategoryId + 1
    /\ UNCHANGED <<users, userRoles, expenses, incomes, expenseCategories,
                   incomeCategories, incomeSubcategories, budgets,
                   budgetAllocations>>
    /\ UNCHANGED <<nextUserId, nextExpenseId, nextIncomeId,
                   nextExpenseCategoryId, nextIncomeCategoryId,
                   nextIncomeSubcategoryId, nextBudgetId, nextBudgetAllocationId>>

ExpenseSubcategoryInUse(id) ==
    \E x \in DOMAIN expenses : expenses[x].subcategoryId = id

deleteExpenseSubcategory(id) ==
    /\ ~ExpenseSubcategoryInUse(id)
    /\ expenseSubcategories' = MapDelete(expenseSubcategories, id)
    /\ UNCHANGED <<users, userRoles, expenses, incomes, expenseCategories,
                   incomeCategories, incomeSubcategories, budgets,
                   budgetAllocations>>
    /\ UNCHANGED counters

createIncomeCategory(userId, category) ==
    /\ incomeCategories' = MapSet(incomeCategories, nextIncomeCategoryId,
            [id |-> nextIncomeCategoryId, userId |-> userId, name |-> category.name])
    /\ nextIncomeCategoryId' = nextIncomeCategoryId + 1
    /\ UNCHANGED <<users, userRoles, expenses, incomes, expenseCategories,
                   expenseSubcategories, incomeSubcategories, budgets,
                   budgetAllocations>>
    /\ UNCHANGED <<nextUserId, nextExpenseId, nextIncomeId,
                   nextExpenseCategoryId, nextExpenseSubcategoryId,
                   nextIncomeSubcategoryId, nextBudgetId, nextBudgetAllocationId>>

IncomeCategoryInUse(id) ==
    \/ \E x \in DOMAIN incomes : incomes[x].categoryId = id
    \/ \E x \in DOMAIN incomeSubcategories : incomeSubcategories[x].categoryId = id

deleteIncomeCategory(id) ==
    /\ ~IncomeCategoryInUse(id)
    /\ incomeCategories' = MapDelete(incomeCategories, id)
    /\ UNCHANGED <<users, userRoles, expenses, incomes, expenseCategories,
                   expenseSubcategories, incomeSubcategories, budgets,
                   budgetAllocations>>
    /\ UNCHANGED counters

createIncomeSubcategory(userId, subcategory) ==
    /\ incomeSubcategories' = MapSet(incomeSubcategories, nextIncomeSubcategoryId,
            [id |-> nextIncomeSubcategoryId, userId |-> userId,
             categoryId |-> subcategory.categoryId, name |-> subcategory.name])
    /\ nextIncomeSubcategoryId' = nextIncomeSubcategoryId + 1
    /\ UNCHANGED <<users, userRoles, expenses, incomes, expenseCategories,
                   expenseSubcategories, incomeCategories, budgets,
                   budgetAllocations>>
    /\ UNCHANGED <<nextUserId, nextExpenseId, nextIncomeId,
                   nextExpenseCategoryId, nextExpenseSubcategoryId,
                   nextIncomeCategoryId, nextBudgetId, nextBudgetAllocationId>>

IncomeSubcategoryInUse(id) ==
    \E x \in DOMAIN incomes : incomes[x].subcategoryId = id

deleteIncomeSubcategory(id) ==
    /\ ~IncomeSubcategoryInUse(id)
    /\ incomeSubcategories' = MapDelete(incomeSubcategories, id)
    /\ UNCHANGED <<users, userRoles, expenses, incomes, expenseCategories,
                   expenseSubcategories, incomeCategories, budgets,
                   budgetAllocations>>
    /\ UNCHANGED counters

createIncome(incomeData) ==
    /\ incomes' = MapSet(incomes, nextIncomeId,
            [id |-> nextIncomeId, userId |-> incomeData.userId,
             amount |-> incomeData.amount, date |-> incomeData.date,
             categoryId |-> incomeData.categoryId,
             subcategoryId |-> incomeData.subcategoryId])
    /\ nextIncomeId' = nextIncomeId + 1
    /\ UNCHANGED <<users, userRoles, expenses, expenseCategories,
                   expenseSubcategories, incomeCategories, incomeSubcategories,
                   budgets, budgetAllocations>>
    /\ UNCHANGED <<nextUserId, nextExpenseId, nextExpenseCategoryId,
                   nextExpenseSubcategoryId, nextIncomeCategoryId,
                   nextIncomeSubcategoryId, nextBudgetId, nextBudgetAllocationId>>

deleteIncome(id) ==
    /\ id \in DOMAIN incomes
    /\ incomes' = MapDelete(incomes, id)
    /\ UNCHANGED <<users, userRoles, expenses, expenseCategories,
                   expenseSubcategories, incomeCategories, incomeSubcategories,
                   budgets, budgetAllocations>>
    /\ UNCHANGED counters

updateExpenseCategory(id, category) ==
    /\ id \in DOMAIN expenseCategories
    /\ expenseCategories' = MapSet(expenseCategories, id,
            [expenseCategories[id] EXCEPT !.name = category.name])
    /\ UNCHANGED <<users, userRoles, expenses, incomes, expenseSubcategories,
                   incomeCategories, incomeSubcategories, budgets,
                   budgetAllocations>>
    /\ UNCHANGED counters

\* Mutant: the category of the subcategory is kept.
updateExpenseSubcategoryNameOnly(id, subcategory) ==
    /\ id \in DOMAIN expenseSubcategories
    /\ expenseSubcategories' = MapSet(expenseSubcategories, id,
            [expenseSubcategories[id] EXCEPT !.name = subcategory.name])
    /\ UNCHANGED <<users, userRoles, expenses, incomes, expenseCategories,
                   incomeCategories, incomeSubcategories, budgets,
                   budgetAllocations>>
    /\ UNCHANGED counters

updateExpenseSubcategory(id, subcategory) ==
    /\ id \in DOMAIN expenseSubcategories
    /\ expenseSubcategories' = MapSet(expenseSubcategories, id,
            [expenseSubcategories[id] EXCEPT !.name = subcategory.name,
                                             !.categoryId = subcategory.categoryId])
    /\ UNCHANGED <<users, userRoles, expenses, incomes, expenseCategories,
                   incomeCategories, incomeSubcategories, budgets,
                   budgetAllocations>>
    /\ UNCHANGED counters

\* currency: settings.currency || user.currency || 'XAF'; the empty string
\* stands for a currency that is not given.
updateUserSettings(userId, settings) ==
    /\ userId \in DOMAIN users
    /\ users' = MapSet(users, userId,
            [users[userId] EXCEPT
                !.currency = IF settings.currency # "" THEN settings.currency
                             ELSE IF @ # "" THEN @
                             ELSE "XAF"])
    /\ UNCHANGED <<userRoles, expenses, incomes, expenseCategories,
                   expenseSubcategories, incomeCategories, incomeSubcategories,
                   budgets, budgetAllocations>>
    /\ UNCHANGED counters

updateIncomeCategory(id, category) ==
    /\ id \in DOMAIN incomeCategories
    /\ incomeCategories' = MapSet(incomeCategories, id,
            [incomeCategories[id] EXCEPT !.name = category.name])
    /\ UNCHANGED <<users, userRoles, expenses, incomes, expenseCategories,
                   expenseSubcategories, incomeSubcategories, budgets,
                   budgetAllocations>>
    /\ UNCHANGED counters

updateIncomeSubcategory(id, subcategory) ==
    /\ id \in DOMAIN incomeSubcategories
    /\ incomeSubcategories' = MapSet(incomeSubcategories, id,
            [incomeSubcategories[id] EXCEPT !.name = subcategory.name,
                                            !.categoryId = subcategory.categoryId])
    /\ UNCHANGED <<users, userRoles, expenses, incomes, expenseCategories,
                   expenseSubcategories, incomeCategories, budgets,
                   budgetAllocations>>
    /\ UNCHANGED counters

\* { ...existingIncome, ...incomeData, id, subcategoryId:
\* incomeData.subcategoryId || null }
updateIncome(id, incomeData) ==
    /\ id \in DOMAIN incomes
    /\ incomes' = MapSet(incomes, id,
            [id |-> id, userId |-> incomeData.userId,
             amount |-> incomeData.amount, date |-> incomeData.date,
             categoryId |-> incomeData.categoryId,
             subcategoryId |-> incomeData.subcategoryId])
    /\ UNCHANGED <<users, userRoles, expenses, expenseCategories,
                   expenseSubcategories, incomeCategories, incomeSubcategories,
                   budgets, budgetAllocations>>
    /\ UNCHANGED counters

(***************************************************************************)
(* createDemoAccounts, one await at a time.  The constructor does not      *)
(* await it, so it runs in the microtasks that follow the construction:    *)
(* each step below resumes it from the await it is suspended at and runs   *)
(* it to its next await, the awaited call included (a MemStorage method    *)
(* has no await in its body and does its work when it is called).  The     *)
(* awaits of createDefaultCategories are awaits of this chain too.         *)
(***************************************************************************)
\* Array.from(this.users.values()).find(user => user.username === username)
getUserByUsername(username) ==
    LET found == {u \in DOMAIN users : users[u].username = username}
    IN  IF found = {} THEN undefined
        ELSE users[CHOOSE u \in found : \A v \in found : u <= v]

getExpenseCategories(userId) ==
    LET Test(category) == category.userId = userId
    IN  SelectSeq(MapValues(expenseCategories), Test)

getExpenseSubcategories(categoryId) ==
    LET Test(subcategory) == subcategory.categoryId = categoryId
    IN  SelectSeq(MapValues(expenseSubcategories), Test)

getIncomeCategories(userId) ==
    LET Test(category) == category.userId = userId
    IN  SelectSeq(MapValues(incomeCategories), Test)

getIncomeSubcategories(categoryId) ==
    LET Test(subcategory) == subcategory.categoryId = categoryId
    IN  SelectSeq(MapValues(incomeSubcategories), Test)

\* records.find(r => r.name === name): the locals of createDemoAccounts keep
\* the id of the record found, null when there is none.
FindByName(records, name) ==
    LET at == {i \in 1..Len(records) : records[i].name = name}
    IN  IF at = {} THEN null
        ELSE records[CHOOSE i \in at : \A j \in at : i <= j].id

\* createDemoAccounts has returned.
Seeded == Awaits[seed.at] = "returned"

\* createDemoAccounts is inside its call of createDefaultCategories.
InDefaultCategories ==
    Awaits[seed.at] \in {"createDefaultCategories(user)",
                         "createDefaultCategories(admin)"}

\* Whether the method, with locals s, makes the call awaited at a.
Reaches(a, s) ==
    LET demo == s.demoUser = undefined
    IN  CASE a \in {"createUser(demo)", "createDefaultCategories(user)",
                    "getExpenseCategories", "getIncomeCategories",
                    "createBudget"} -> demo
          [] a \in {"getExpenseSubcategories(foodCategory)",
                    "createBudgetAllocation(foodCategory)"} ->
                demo /\ s.foodCategory # null
          [] a \in {"getExpenseSubcategories(transportCategory)",
                    "createBudgetAllocation(transportCategory)"} ->
                demo /\ s.transportCategory # null
          [] a \in {"getExpenseSubcategories(entertainmentCategory)",
                    "createBudgetAllocation(entertainmentCategory)"} ->
                demo /\ s.entertainmentCategory # null
          [] a = "createExpense(Groceries)" ->
                demo /\ s.foodCategory # null /\ s.groceriesSubcategory # null
          [] a = "createExpense(Gas)" ->
                demo /\ s.transportCategory # null /\ s.fuelSubcategory # null
          [] a = "createExpense(Netflix)" ->
                /\ demo
                /\ s.entertainmentCategory # null
                /\ s.subscriptionsSubcategory # null
          [] a = "getIncomeSubcategories(wagesCategory)" ->
                demo /\ s.wagesCategory # null
          [] a = "createIncome" ->
                demo /\ s.wagesCategory # null /\ s.paycheckSubcategory # null
          [] a \in {"createUser(admin)", "createDefaultCategories(admin)"} ->
                s.adminUser = undefined
          [] OTHER -> TRUE

\* The next await the suspended method gets to.
NextAwait ==
    CHOOSE k \in (seed.at + 1)..Len(Awaits) :
        /\ Reaches(Awaits[k], seed)
        /\ \A j \in (seed.at + 1)..(k - 1) : ~Reaches(Awaits[j], seed)

\* const date = new Date(), read once: one of clocks.
Clock(clocks) == IF seed.date = <<>> THEN clocks ELSE {seed.date}

\* One create of createDefaultCategories for the account userId; the
\* subcategories go under the category created last.
CreateDefault(task, userId) ==
    /\ CASE task.kind = "expense" /\ ~task.sub ->
                createExpenseCategory(userId, [name |-> task.name])
         [] task.kind = "expense" /\ task.sub ->
                createExpenseSubcategory(userId,
                    [categoryId |-> seed.category, name |-> task.name])
         [] task.kind = "income" /\ ~task.sub ->
                createIncomeCategory(userId, [name |-> task.name])
         [] OTHER ->
                createIncomeSubcategory(userId,
                    [categoryId |-> seed.category, name |-> task.name])
    /\ seed' = [seed EXCEPT
            !.at = IF InDefaultCategories THEN @ ELSE NextAwait,
            !.task = IF InDefaultCategories THEN @ + 1 ELSE 1,
            !.category =
                IF task.sub THEN @
                ELSE IF task.kind = "expense" THEN nextExpenseCategoryId
                ELSE nextIncomeCategoryId]

\* The call awaited at a, with the locals it leaves, when the clock at
\* construction is one of clocks and the month one of months.
Perform(a, clocks, months) ==
    CASE a \in {"createUser(demo)", "createUser(admin)"} ->
            /\ createUser([username |-> IF a = "createUser(demo)" THEN "demo"
                                        ELSE "admin"])
            /\ seed' = [seed EXCEPT !.at = NextAwait, !.user = nextUserId]
      [] a \in {"createDefaultCategories(user)", "createDefaultCategories(admin)"} ->
            CreateDefault(DefaultTasks[1], seed.user)
      [] a = "getExpenseCategories" ->
            /\ UNCHANGED store
            /\ LET categories == getExpenseCategories(seed.user)
               IN  seed' = [seed EXCEPT
                        !.at = NextAwait,
                        !.foodCategory = FindByName(categories, "Everyday"),
                        !.transportCategory =
                            FindByName(categories, "Transportation"),
                        !.entertainmentCategory =
                            FindByName(categories, "Entertainment")]
      [] a = "getExpenseSubcategories(foodCategory)" ->
            /\ UNCHANGED store
            /\ seed' = [seed EXCEPT
                    !.at = NextAwait,
                    !.groceriesSubcategory =
                        FindByName(getExpenseSubcategories(seed.foodCategory),
                                   "Groceries")]
      [] a = "getExpenseSubcategories(transportCategory)" ->
            /\ UNCHANGED store
            /\ seed' = [seed EXCEPT
                    !.at = NextAwait,
                    !.fuelSubcategory =
                        FindByName(getExpenseSubcategories(seed.transportCategory),
                                   "Fuel")]
      [] a = "getExpenseSubcategories(entertainmentCategory)" ->
            /\ UNCHANGED store
            /\ seed' = [seed EXCEPT
                    !.at = NextAwait,
                    !.subscriptionsSubcategory =
                        FindByName(
                            getExpenseSubcategories(seed.entertainmentCategory),
                            "Subscriptions")]
      [] a = "createExpense(Groceries)" ->
            \E date \in Clock(clocks) :
                /\ createExpense([userId |-> seed.user, amount |-> GroceriesAmount,
                                  date |-> date[1],
                                  categoryId |-> seed.foodCategory,
                                  subcategoryId |-> seed.groceriesSubcategory])
                /\ seed' = [seed EXCEPT !.at = NextAwait, !.date = date]
      [] a = "createExpense(Gas)" ->
            \E date \in Clock(clocks) :
                /\ createExpense([userId |-> seed.user, amount |-> GasAmount,
                                  date |-> date[2],
                                  categoryId |-> seed.transportCategory,
                                  subcategoryId |-> seed.fuelSubcategory])
                /\ seed' = [seed EXCEPT !.at = NextAwait, !.date = date]
      [] a = "createExpense(Netflix)" ->
            \E date \in Clock(clocks), fiveDaysAgo \in Dates :
                /\ fiveDaysAgo <= date[2]
                /\ createExpense([userId |-> seed.user, amount |-> NetflixAmount,
                                  date |-> fiveDaysAgo,
                                  categoryId |-> seed.entertainmentCategory,
                                  subcategoryId |-> seed.subscriptionsSubcategory])
                /\ seed' = [seed EXCEPT !.at = NextAwait, !.date = date]
      [] a = "getIncomeCategories" ->
            /\ UNCHANGED store
            /\ seed' = [seed EXCEPT
                    !.at = NextAwait,
                    !.wagesCategory =
                        FindByName(getIncomeCategories(seed.user), "Wages")]
      [] a = "getIncomeSubcategories(wagesCategory)" ->
            /\ UNCHANGED store
            /\ seed' = [seed EXCEPT
                    !.at = NextAwait,
                    !.paycheckSubcategory =
                        FindByName(getIncomeSubcategories(seed.wagesCategory),
                                   "Paycheck")]
      [] a = "createIncome" ->
            \* "2 days ago" lies between "3 days ago" and "1 day ago": before
            \* the last day of the month, and on the first instant of the
            \* month only when the two are on either side of it.
            \E date \in Clock(clocks), twoDaysAgo \in Dates :
                /\ date[2] <= twoDaysAgo /\ twoDaysAgo <= date[1]
                /\ twoDaysAgo < MonthEnd
                /\ twoDaysAgo = MonthStart
                        => (date[2] < MonthStart /\ MonthStart < date[1])
                /\ createIncome([userId |-> seed.user, amount |-> SalaryAmount,
                                 date |-> twoDaysAgo,
                                 categoryId |-> seed.wagesCategory,
                                 subcategoryId |-> seed.paycheckSubcategory])
                /\ seed' = [seed EXCEPT !.at = NextAwait, !.date = date]
      [] a = "createBudget" ->
            \* const currentMonth = new Date().getMonth(), counted from 1
            \* here: January (the month before is in the year before),
            \* February, or December (the month after is in the year after).
            \* const currentYear = new Date().getFullYear() reads the clock
            \* again: the year of the month read, or the year after when
            \* the month read is December and the new year begins between
            \* the two reads.  The demo expenses are dated one and three days
            \* before the last instants of December then, and the budget is
            \* the December of the year after.
            \E currentMonth \in months, currentYear \in {ThisYear, ThisYear + 1} :
                LET later == (currentYear - ThisYear) * 12 * DaysPerMonth
                IN  /\ currentYear # ThisYear
                            => (currentMonth = 12 /\ seed.date = <<2, 2>>)
                    /\ createBudget([userId |-> seed.user,
                                     title |-> "Monthly Budget",
                                     startDate |-> MonthStart + later,
                                     endDate |-> MonthEnd + later,
                                     totalBudget |-> DemoTotalBudget])
                    /\ seed' = [seed EXCEPT !.at = NextAwait,
                                            !.currentMonth = currentMonth,
                                            !.currentYear = currentYear,
                                            !.budget = nextBudgetId]
      [] a = "createBudgetAllocation(foodCategory)" ->
            /\ createBudgetAllocation(
                    [budgetId |-> seed.budget, categoryId |-> seed.foodCategory,
                     subcategoryId |-> null, amount |-> EverydayAllocation])
            /\ seed' = [seed EXCEPT !.at = NextAwait]
      [] a = "createBudgetAllocation(transportCategory)" ->
            /\ createBudgetAllocation(
                    [budgetId |-> seed.budget,
                     categoryId |-> seed.transportCategory,
                     subcategoryId |-> null, amount |-> TransportationAllocation])
            /\ seed' = [seed EXCEPT !.at = NextAwait]
      [] a = "createBudgetAllocation(entertainmentCategory)" ->
            /\ createBudgetAllocation(
                    [budgetId |-> seed.budget,
                     categoryId |-> seed.entertainmentCategory,
                     subcategoryId |-> null, amount |-> EntertainmentAllocation])
            /\ seed' = [seed EXCEPT !.at = NextAwait]
      [] a = "getUserByUsername(admin)" ->
            /\ UNCHANGED store
            /\ seed' = [seed EXCEPT !.at = NextAwait,
                                    !.adminUser = getUserByUsername("admin")]
      [] OTHER ->
            /\ UNCHANGED store
            /\ seed' = [seed EXCEPT !.at = NextAwait]

\* One resumption of createDemoAccounts.
ResumeCreateDemoAccountsAt(clocks, months) ==
    /\ ~Seeded
    /\ UNCHANGED <<ops, res, frame, handlers>>
    /\ IF InDefaultCategories /\ seed.task < Len(DefaultTasks)
       THEN CreateDefault(DefaultTasks[seed.task + 1], seed.user)
       ELSE Perform(Awaits[NextAwait], clocks, months)

\* At any clock: the data layer and the reports are checked for every
\* position of the demo expenses against the demo budget.
ResumeCreateDemoAccounts == ResumeCreateDemoAccountsAt(DemoClock, {1, 2, 12})

\* In February, at a clock that dates both demo expenses inside the month,
\* the one made "1 day ago" after the one made "3 days ago": the
\* construction that the request handlers are run after.
ResumeCreateDemoAccountsInFebruary == ResumeCreateDemoAccountsAt({<<2, 1>>}, {2})

(***************************************************************************)
(* Inputs.                                                                 *)
(***************************************************************************)
UserIds == {1, 2}
\* Everyday of demo (allocated in the demo budget), Everyday of admin.
CategoryInputs == {5, 19}

ExpenseInputs ==
    [amount : {7000, 90000}, date : Dates, categoryId : CategoryInputs,
     subcategoryId : {null}]
BudgetInputs ==
    [title : {"Budget"}, startDate : {0, 2}, endDate : {1, 2},
     totalBudget : {100000}]
AllocationInputs ==
    [budgetId : {1, 2}, categoryId : CategoryInputs, subcategoryId : {null},
     amount : {7000, 90000}]

\* InsertExpense & { userId }
WithUser(data, userId) ==
    [k \in DOMAIN data \cup {"userId"} |-> IF k = "userId" THEN userId ELSE data[k]]

Outcome(op, id, threw) ==
    [op |-> op, user |-> null, id |-> id, status |-> 0,
     called |-> FALSE, threw |-> threw, value |-> undefined]

(***************************************************************************)
(* getBudgetPerformance one await at a time.  The method is async and the  *)
(* storage object is shared by every caller, so between two of its awaits  *)
(* the calls of other callers that are in flight at the same time run:     *)
(* the budget is read when the method is called, the allocations when it   *)
(* resumes from the first await, the expenses when it resumes from the     *)
(* second, and the result is computed from these three locals when it      *)
(* resumes from the third.  createLegacyExpense, updateLegacyExpense and   *)
(* getCategoryExpenseTotals await between their storage calls as well:     *)
(* their steps are with the handlers and the reports below.  The other     *)
(* methods have no await between two accesses of the store and run in one  *)
(* piece.                                                                  *)
(*                                                                         *)
(* frame.existed collects, for the budget of the suspended invocation, the *)
(* outcome getBudgetPerformance has in every store state from the call to  *)
(* the return; frame.result is what the invocation returned.  frame.before *)
(* is what the invocation for the same budget before this one returned,    *)
(* as long as the store has held what that one read and no other call has  *)
(* run since; undefined otherwise.                                         *)
(***************************************************************************)
\* Lines 1177-1213 over the locals budget, allocations and expenses.
PerformanceOfLocals(budget, allocations, userExpenses) ==
    LET budgetExpenses == BudgetExpenses(userExpenses, budget)
        totalAllocated == TotalAllocated(allocations)
        categoryTotals == CategoryTotals(budgetExpenses)
        categoryPerformance == CategoryPerformance(allocations, categoryTotals)
        totalSpent == TotalSpent(categoryPerformance)
        totalRemaining == TotalRemaining(totalAllocated, totalSpent)
    IN  [allocated |-> totalAllocated,
         spent |-> totalSpent,
         remaining |-> totalRemaining,
         categories |-> categoryPerformance]

Suspended == {"getBudgetById", "getBudgetAllocations", "getExpensesByUserId"}

\* Every step taken while the invocation is suspended records the store
\* state it starts from: each state between the call and the return is the
\* one some such step starts from.
Existed ==
    IF frame.pc \in Suspended
    THEN frame.existed \cup {getBudgetPerformance(frame.budgetId)}
    ELSE frame.existed

\* The store holds what the invocation read: the budget, its allocations
\* and the expenses of its user, or no budget when it found none.
HoldsReads ==
    /\ getBudgetById(frame.budgetId) = frame.budget
    /\ frame.budget # undefined =>
            /\ getBudgetAllocations(frame.budgetId) = frame.allocations
            /\ getExpensesByUserId(frame.budget.userId) = frame.expenses

\* The result in res was computed from what the store holds: no invocation
\* was needed, or the store holds what the invocation read.
Undisturbed ==
    \/ frame.pc = "idle"
    \/ frame.pc = "returned" /\ HoldsReads

\* A step of another call, taken while the invocation is suspended or after
\* it has returned.
Observe ==
    /\ frame' = [frame EXCEPT !.existed = Existed, !.before = undefined]
    /\ UNCHANGED <<handlers, seed>>

\* const budget = await this.getBudgetById(budgetId): the map is read in
\* the call, the caller is suspended.
InvokeGetBudgetPerformance ==
    \E budgetId \in 1..nextBudgetId :
        /\ Seeded
        /\ frame.pc \notin Suspended
        /\ frame' = [pc |-> "getBudgetById", budgetId |-> budgetId,
                     budget |-> getBudgetById(budgetId),
                     allocations |-> <<>>, expenses |-> <<>>,
                     existed |-> {getBudgetPerformance(budgetId)},
                     before |-> IF /\ frame.pc = "returned"
                                   /\ frame.budgetId = budgetId
                                   /\ HoldsReads
                                THEN frame.result ELSE undefined,
                     result |-> undefined]
        /\ getBudgetPerformanceWritesNothing(budgetId)
        /\ UNCHANGED <<ops, res, handlers, seed>>

\* if (!budget) throw; const allocations = await this.getBudgetAllocations(budgetId)
ResumeFromGetBudgetById ==
    /\ Seeded
    /\ frame.pc = "getBudgetById"
    /\ IF frame.budget = undefined
       THEN /\ frame' = [frame EXCEPT !.pc = "returned", !.existed = Existed,
                            !.result = [threw |-> TRUE, value |-> undefined]]
            /\ res' = [op |-> "getBudgetPerformance", user |-> null,
                       id |-> frame.budgetId, status |-> 0, called |-> TRUE,
                       threw |-> TRUE, value |-> undefined]
       ELSE /\ frame' = [frame EXCEPT !.pc = "getBudgetAllocations",
                            !.existed = Existed,
                            !.allocations = getBudgetAllocations(frame.budgetId)]
            /\ UNCHANGED res
    /\ getBudgetPerformanceWritesNothing(frame.budgetId)
    /\ UNCHANGED <<ops, handlers, seed>>

\* const expenses = await this.getExpensesByUserId(budget.userId)
ResumeFromGetBudgetAllocations ==
    /\ Seeded
    /\ frame.pc = "getBudgetAllocations"
    /\ frame' = [frame EXCEPT !.pc = "getExpensesByUserId",
                    !.existed = Existed,
                    !.expenses = getExpensesByUserId(frame.budget.userId)]
    /\ getBudgetPerformanceWritesNothing(frame.budgetId)
    /\ UNCHANGED <<ops, res, handlers, seed>>

\* The rest of the method runs to its return without another await.
ResumeFromGetExpensesByUserId ==
    /\ Seeded
    /\ frame.pc = "getExpensesByUserId"
    /\ LET value == PerformanceOfLocals(frame.budget, frame.allocations,
                                        frame.expenses)
       IN  /\ frame' = [frame EXCEPT !.pc = "returned", !.existed = Existed,
                            !.result = [threw |-> FALSE, value |-> value]]
           /\ res' = [op |-> "getBudgetPerformance", user |-> null,
                      id |-> frame.budgetId, status |-> 0, called |-> TRUE,
                      threw |-> FALSE, value |-> value]
    /\ getBudgetPerformanceWritesNothing(frame.budgetId)
    /\ UNCHANGED <<ops, handlers, seed>>

(***************************************************************************)
(* The data layer driven directly: the calls that create, update and       *)
(* delete expenses, budgets and budget allocations, with any input, MaxOps *)
(* of them at most, and invocations of getBudgetPerformance that take      *)
(* their steps between them.                                               *)
(***************************************************************************)
CallCreateExpense ==
    \E userId \in UserIds, data \in ExpenseInputs :
        /\ Seeded
        /\ ops < MaxOps
        /\ createExpense(WithUser(data, userId))
        /\ ops' = ops + 1 /\ Observe
        /\ res' = Outcome("createExpense", nextExpenseId, FALSE)

CallUpdateExpense ==
    \E id \in 1..nextExpenseId, userId \in UserIds, data \in ExpenseInputs :
        /\ Seeded
        /\ ops < MaxOps
        /\ IF id \in DOMAIN expenses
           THEN updateExpense(id, WithUser(data, userId))
           ELSE UNCHANGED store
        /\ ops' = ops + 1 /\ Observe
        /\ res' = Outcome("updateExpense", id, id \notin DOMAIN expenses)

CallDeleteExpense ==
    \E id \in 1..nextExpenseId :
        /\ Seeded
        /\ ops < MaxOps
        /\ IF id \in DOMAIN expenses THEN deleteExpense(id) ELSE UNCHANGED store
        /\ ops' = ops + 1 /\ Observe
        /\ res' = Outcome("deleteExpense", id, id \notin DOMAIN expenses)

CallCreateBudget ==
    \E userId \in UserIds, data \in BudgetInputs :
        /\ Seeded
        /\ ops < MaxOps
        /\ createBudget(WithUser(data, userId))
        /\ ops' = ops + 1 /\ Observe
        /\ res' = Outcome("createBudget", nextBudgetId, FALSE)

CallUpdateBudget ==
    \E id \in 1..nextBudgetId, data \in BudgetInputs :
        /\ Seeded
        /\ ops < MaxOps
        /\ IF id \in DOMAIN budgets THEN updateBudget(id, data) ELSE UNCHANGED store
        /\ ops' = ops + 1 /\ Observe
        /\ res' = Outcome("updateBudget", id, id \notin DOMAIN budgets)

CallDeleteBudget ==
    \E id \in 1..nextBudgetId :
        /\ Seeded
        /\ ops < MaxOps
        /\ IF id \in DOMAIN budgets THEN deleteBudget(id) ELSE UNCHANGED store
        /\ ops' = ops + 1 /\ Observe
        /\ res' = Outcome("deleteBudget", id, id \notin DOMAIN budgets)

CallCreateBudgetAllocation ==
    \E data \in AllocationInputs :
        /\ Seeded
        /\ ops < MaxOps
        /\ createBudgetAllocation(data)
        /\ ops' = ops + 1 /\ Observe
        /\ res' = Outcome("createBudgetAllocation", nextBudgetAllocationId, FALSE)

CallUpdateBudgetAllocation ==
    \E id \in 1..nextBudgetAllocationId, data \in AllocationInputs :
        /\ Seeded
        /\ ops < MaxOps
        /\ IF id \in DOMAIN budgetAllocations
           THEN updateBudgetAllocation(id, data)
           ELSE UNCHANGED store
        /\ ops' = ops + 1 /\ Observe
        /\ res' = Outcome("updateBudgetAllocation", id, id \notin DOMAIN budgetAllocations)

CallDeleteBudgetAllocation ==
    \E id \in 1..nextBudgetAllocationId :
        /\ Seeded
        /\ ops < MaxOps
        /\ IF id \in DOMAIN budgetAllocations
           THEN deleteBudgetAllocation(id)
           ELSE UNCHANGED store
        /\ ops' = ops + 1 /\ Observe
        /\ res' = Outcome("deleteBudgetAllocation", id, id \notin DOMAIN budgetAllocations)

NextStorage ==
    \/ ResumeCreateDemoAccounts
    \/ CallCreateExpense
    \/ CallUpdateExpense
    \/ CallDeleteExpense
    \/ CallCreateBudget
    \/ CallUpdateBudget
    \/ CallDeleteBudget
    \/ CallCreateBudgetAllocation
    \/ CallUpdateBudgetAllocation
    \/ CallDeleteBudgetAllocation
    \/ InvokeGetBudgetPerformance
    \/ ResumeFromGetBudgetById
    \/ ResumeFromGetBudgetAllocations
    \/ ResumeFromGetExpensesByUserId

SpecStorage == Init /\ [][NextStorage]_vars

(***************************************************************************)
(* The REST handlers of budgets, budget allocations, budget performance    *)
(* and, further down, of every other route.  A handler is an async         *)
(* function: it runs to its first await, and from an await to the next, in *)
(* one piece, and the handlers of the other requests in flight run between *)
(* its awaits.                                                             *)
(* Every await of a handler is on a MemStorage method, whose body runs     *)
(* when it is called.                                                      *)
(*                                                                         *)
(* A step of a handler makes one storage call and does what the handler    *)
(* does with the result when it resumes from the await, up to the next     *)
(* call: what it does then is fixed by the result, and reads nothing of    *)
(* the store.  The step answers the request when the handler makes no      *)
(* further call, and leaves the handler in handlers, suspended before its  *)
(* next call, otherwise.  Which of the suspended handlers is resumed next  *)
(* is left open.                                                           *)
(*                                                                         *)
(* A suspended handler is a record of its request (op, the authenticated   *)
(* user or null, the id of the path, the body), of the call it makes when  *)
(* it is resumed (pc) and of the locals it keeps (value).  handlers is a   *)
(* bag: two requests may be equal.  res is the last step: the request of   *)
(* its handler, where it was resumed from (pc, "request" for the first     *)
(* step of a handler) and the status it answered, 0 when it did not        *)
(* answer yet.                                                             *)
(***************************************************************************)
getExpenseCategoryById(id) ==
    IF id \in DOMAIN expenseCategories THEN expenseCategories[id] ELSE undefined

getExpenseSubcategoryById(id) ==
    IF id \in DOMAIN expenseSubcategories THEN expenseSubcategories[id] ELSE undefined

\* Mutant: next() is called for every request.
requireAuthLetsThrough(u) == TRUE

\* req.isAuthenticated()
requireAuth(u) == u # null

\* A body that the zod schema of the route rejects.
Malformed == [malformed |-> TRUE]

Callers == {null, 1, 2}
RouteBudgetInputs == BudgetInputs \cup {Malformed}
RouteAllocationInputs ==
    [budgetId : {1, 2}, categoryId : CategoryInputs, subcategoryId : {null, 36},
     amount : {7000, -7000}] \cup {Malformed}

\* The handler of a request that has just been received.
Request(op, u, id, data) ==
    [op |-> op, user |-> u, id |-> id, data |-> data, pc |-> "request",
     value |-> undefined]

InFlight == BagCardinality(handlers)

\* A request is received: at most MaxInFlight handlers are suspended at a
\* time, and at most bound requests are received.
Received(bound) ==
    /\ Seeded
    /\ InFlight < MaxInFlight
    /\ ops < bound
    /\ ops' = ops + 1
    /\ UNCHANGED seed

\* A request or a call that is not counted is received: it writes nothing
\* but a role, or reads only.
ReceivedGet ==
    /\ Seeded
    /\ InFlight < MaxInFlight
    /\ UNCHANGED <<ops, seed>>

\* The handlers of op that are suspended before their call of pc.
Awaiting(op, pc) == {h \in BagToSet(handlers) : h.op = op /\ h.pc = pc}

\* handlers without h, which takes a step.
Others(h) ==
    IF h.pc = "request" THEN handlers ELSE handlers (-) SetToBag({h})

\* The handler answers with status: it is over.  value is what res keeps of
\* its locals.
Answer(h, id, status, value) ==
    /\ res' = [op |-> h.op, user |-> h.user, id |-> id, status |-> status,
               called |-> FALSE, threw |-> FALSE, value |-> value, pc |-> h.pc]
    /\ handlers' = Others(h)
    /\ frame' = NoFrame

Respond(h, id, status) == Answer(h, id, status, h.value)

\* The handler gets to its await of the call pc, with the locals value.
Await(h, pc, value) ==
    /\ res' = [op |-> h.op, user |-> h.user, id |-> h.id, status |-> 0,
               called |-> FALSE, threw |-> FALSE, value |-> value, pc |-> h.pc]
    /\ handlers' = Others(h) (+) SetToBag({[h EXCEPT !.pc = pc, !.value = value]})
    /\ frame' = NoFrame

\* The handler answers with what getBudgetPerformance returned or threw:
\* the catch block turns an exception into 500.  frame keeps what the
\* invocation read.
RespondPerformance(h, locals, r) ==
    /\ res' = [op |-> h.op, user |-> h.user, id |-> h.id,
               status |-> IF r.threw THEN 500 ELSE 200,
               called |-> TRUE, threw |-> r.threw, value |-> r.value, pc |-> h.pc]
    /\ handlers' = Others(h)
    /\ frame' = [pc |-> "returned", budgetId |-> h.id, budget |-> locals.budget,
                 allocations |-> locals.allocations, expenses |-> locals.expenses,
                 existed |-> {}, before |-> undefined, result |-> r]

\* Mutant: the owner of the record is not compared with the caller.
OwnedByAnyone(record, u) == TRUE

\* record.userId !== req.user.id
OwnedBy(record, u) == record.userId = u

\* !budget || budget.userId !== req.user.id
InvalidBudget(u, budgetId) ==
    LET budget == getBudgetById(budgetId)
    IN  budget = undefined \/ budget.userId # u

\* !category || category.userId !== req.user.id
InvalidCategory(u, categoryId) ==
    LET category == getExpenseCategoryById(categoryId)
    IN  category = undefined \/ category.userId # u

\* !subcategory || subcategory.categoryId !== data.categoryId
InvalidSubcategory(data) ==
    LET subcategory == getExpenseSubcategoryById(data.subcategoryId)
    IN  subcategory = undefined \/ subcategory.categoryId # data.categoryId

PostBudget ==
    /\ Received(MaxCalls)
    /\ \E u \in Callers, data \in RouteBudgetInputs :
           LET h == Request("POST /api/budgets", u, null, data)
           IN  /\ IF ~requireAuth(u)
                  THEN Respond(h, null, 401) /\ UNCHANGED store
                  ELSE IF data = Malformed
                  THEN Respond(h, null, 400) /\ UNCHANGED store
                  ELSE /\ createBudget(WithUser(data, u))
                       /\ Respond(h, nextBudgetId, 201)

\* updateBudget throws when the budget is not there any more; the catch
\* block answers 500.
PatchBudget ==
    \/ /\ Received(MaxCalls)
       /\ \E u \in Callers, id \in 1..nextBudgetId, data \in RouteBudgetInputs :
           LET h == Request("PATCH /api/budgets/:id", u, id, data)
               budget == getBudgetById(id)
           IN  /\ UNCHANGED store
               /\ IF ~requireAuth(u) THEN Respond(h, id, 401)
                  ELSE IF budget = undefined THEN Respond(h, id, 404)
                  ELSE IF ~OwnedBy(budget, u) THEN Respond(h, id, 403)
                  ELSE IF data = Malformed THEN Respond(h, id, 400)
                  ELSE Await(h, "updateBudget", undefined)
    \/ \E h \in Awaiting("PATCH /api/budgets/:id", "updateBudget") :
        /\ UNCHANGED <<ops, seed>>
        /\ IF h.id \in DOMAIN budgets
           THEN updateBudget(h.id, h.data) /\ Respond(h, h.id, 200)
           ELSE UNCHANGED store /\ Respond(h, h.id, 500)

\* deleteBudget throws when the budget is not there any more.
DeleteBudget ==
    \/ /\ Received(MaxCalls)
       /\ \E u \in Callers, id \in 1..nextBudgetId :
           LET h == Request("DELETE /api/budgets/:id", u, id, undefined)
               budget == getBudgetById(id)
           IN  /\ UNCHANGED store
               /\ IF ~requireAuth(u) THEN Respond(h, id, 401)
                  ELSE IF budget = undefined THEN Respond(h, id, 404)
                  ELSE IF ~OwnedBy(budget, u) THEN Respond(h, id, 403)
                  ELSE Await(h, "deleteBudget", undefined)
    \/ \E h \in Awaiting("DELETE /api/budgets/:id", "deleteBudget") :
        /\ UNCHANGED <<ops, seed>>
        /\ IF h.id \in DOMAIN budgets
           THEN deleteBudget(h.id) /\ Respond(h, h.id, 204)
           ELSE UNCHANGED store /\ Respond(h, h.id, 500)

\* The budget is looked up when the request is received, the category and
\* the subcategory one await later each, and the allocation is created
\* after a last await, whatever has become of the three by then.
PostBudgetAllocationWithin(bound, inputs) ==
    \/ /\ Received(bound)
       /\ \E u \in Callers, data \in inputs :
           LET h == Request("POST /api/budget-allocations", u, null, data)
           IN  /\ UNCHANGED store
               /\ IF ~requireAuth(u) THEN Respond(h, null, 401)
                  ELSE IF data = Malformed THEN Respond(h, null, 400)
                  ELSE IF InvalidBudget(u, data.budgetId) THEN Respond(h, null, 403)
                  ELSE Await(h, "getExpenseCategoryById", undefined)
    \/ \E h \in Awaiting("POST /api/budget-allocations", "getExpenseCategoryById") :
        /\ UNCHANGED <<store, ops, seed>>
        /\ IF InvalidCategory(h.user, h.data.categoryId) THEN Respond(h, null, 403)
           ELSE IF h.data.subcategoryId # null
           THEN Await(h, "getExpenseSubcategoryById", undefined)
           ELSE Await(h, "createBudgetAllocation", undefined)
    \/ \E h \in Awaiting("POST /api/budget-allocations", "getExpenseSubcategoryById") :
        /\ UNCHANGED <<store, ops, seed>>
        /\ IF InvalidSubcategory(h.data) THEN Respond(h, null, 403)
           ELSE Await(h, "createBudgetAllocation", undefined)
    \/ \E h \in Awaiting("POST /api/budget-allocations", "createBudgetAllocation") :
        /\ UNCHANGED <<ops, seed>>
        /\ createBudgetAllocation(h.data)
        /\ Respond(h, nextBudgetAllocationId, 201)

PostBudgetAllocation == PostBudgetAllocationWithin(MaxCalls, RouteAllocationInputs)

\* The allocation :id itself is never looked up before the update: only the
\* budget named in the body is checked.  updateBudgetAllocation throws when
\* there is no allocation :id.
PatchBudgetAllocation ==
    \/ /\ Received(MaxCalls)
       /\ \E u \in Callers, id \in 1..nextBudgetAllocationId,
             data \in RouteAllocationInputs :
           LET h == Request("PATCH /api/budget-allocations/:id", u, id, data)
           IN  /\ UNCHANGED store
               /\ IF ~requireAuth(u) THEN Respond(h, id, 401)
                  ELSE IF data = Malformed THEN Respond(h, id, 400)
                  ELSE IF InvalidBudget(u, data.budgetId) THEN Respond(h, id, 403)
                  ELSE Await(h, "getExpenseCategoryById", undefined)
    \/ \E h \in Awaiting("PATCH /api/budget-allocations/:id",
                          "getExpenseCategoryById") :
        /\ UNCHANGED <<store, ops, seed>>
        /\ IF InvalidCategory(h.user, h.data.categoryId) THEN Respond(h, h.id, 403)
           ELSE IF h.data.subcategoryId # null
           THEN Await(h, "getExpenseSubcategoryById", undefined)
           ELSE Await(h, "updateBudgetAllocation", undefined)
    \/ \E h \in Awaiting("PATCH /api/budget-allocations/:id",
                          "getExpenseSubcategoryById") :
        /\ UNCHANGED <<store, ops, seed>>
        /\ IF InvalidSubcategory(h.data) THEN Respond(h, h.id, 403)
           ELSE Await(h, "updateBudgetAllocation", undefined)
    \/ \E h \in Awaiting("PATCH /api/budget-allocations/:id",
                          "updateBudgetAllocation") :
        /\ UNCHANGED <<ops, seed>>
        /\ IF h.id \in DOMAIN budgetAllocations
           THEN updateBudgetAllocation(h.id, h.data) /\ Respond(h, h.id, 200)
           ELSE UNCHANGED store /\ Respond(h, h.id, 500)

\* The handler has one await, on deleteBudgetAllocation, which throws when
\* there is no allocation :id.
DeleteBudgetAllocation ==
    /\ Received(MaxCalls)
    /\ \E u \in Callers, id \in 1..nextBudgetAllocationId :
           LET h == Request("DELETE /api/budget-allocations/:id", u, id, undefined)
           IN  /\ IF ~requireAuth(u)
                  THEN Respond(h, id, 401) /\ UNCHANGED store
                  ELSE IF id \notin DOMAIN budgetAllocations
                  THEN Respond(h, id, 500) /\ UNCHANGED store
                  ELSE deleteBudgetAllocation(id) /\ Respond(h, id, 204)

\* The locals of getBudgetPerformance when it has read the budget.
PerformanceLocals(budget) ==
    [budget |-> budget, allocations |-> <<>>, expenses |-> <<>>]

\* await storage.getBudgetPerformance(id) in the handler of op, one await
\* of the method at a time: the budget is read when the handler calls the
\* method, and the method throws when it finds none; the allocations and
\* the expenses are read one await later each, and the result is computed
\* from the three locals.
AwaitGetBudgetPerformance(op) ==
    \/ \E h \in Awaiting(op, "getBudgetPerformance") :
        LET budget == getBudgetById(h.id)
        IN  /\ UNCHANGED <<ops, seed>>
            /\ getBudgetPerformanceWritesNothing(h.id)
            /\ IF budget = undefined
               THEN RespondPerformance(h, PerformanceLocals(budget),
                                       [threw |-> TRUE, value |-> undefined])
               ELSE Await(h, "getBudgetAllocations", PerformanceLocals(budget))
    \/ \E h \in Awaiting(op, "getBudgetAllocations") :
        /\ UNCHANGED <<ops, seed>>
        /\ getBudgetPerformanceWritesNothing(h.id)
        /\ Await(h, "getExpensesByUserId",
                 [h.value EXCEPT !.allocations = getBudgetAllocations(h.id)])
    \/ \E h \in Awaiting(op, "getExpensesByUserId") :
        LET locals == [h.value EXCEPT
                            !.expenses = getExpensesByUserId(h.value.budget.userId)]
        IN  /\ UNCHANGED <<ops, seed>>
            /\ getBudgetPerformanceWritesNothing(h.id)
            /\ RespondPerformance(h, locals,
                    [threw |-> FALSE,
                     value |-> PerformanceOfLocals(locals.budget, locals.allocations,
                                                   locals.expenses)])

\* GET /api/budgets/:id answers with the budget, its allocations and its
\* performance; the performance is what res keeps.  The handler asks for
\* the allocations itself, one await before it asks for the performance.
GetBudget ==
    \/ /\ Received(MaxCalls)
       /\ \E u \in Callers, id \in 1..nextBudgetId :
           LET h == Request("GET /api/budgets/:id", u, id, undefined)
               budget == getBudgetById(id)
           IN  /\ UNCHANGED store
               /\ IF ~requireAuth(u) THEN Respond(h, id, 401)
                  ELSE IF budget = undefined THEN Respond(h, id, 404)
                  ELSE IF ~OwnedBy(budget, u) THEN Respond(h, id, 403)
                  ELSE Await(h, "storage.getBudgetAllocations", undefined)
    \/ \E h \in Awaiting("GET /api/budgets/:id", "storage.getBudgetAllocations") :
        /\ UNCHANGED <<store, ops, seed>>
        /\ Await(h, "getBudgetPerformance", undefined)
    \/ AwaitGetBudgetPerformance("GET /api/budgets/:id")

\* GET /api/reports/budget-performance/:budgetId: a missing budget and a
\* budget of another user get the same answer.
GetBudgetPerformanceReport ==
    \/ /\ Received(MaxCalls)
       /\ \E u \in Callers, budgetId \in 1..nextBudgetId :
           LET h == Request("GET /api/reports/budget-performance/:budgetId",
                            u, budgetId, undefined)
           IN  /\ UNCHANGED store
               /\ IF ~requireAuth(u) THEN Respond(h, budgetId, 401)
                  ELSE IF InvalidBudget(u, budgetId) THEN Respond(h, budgetId, 403)
                  ELSE Await(h, "getBudgetPerformance", undefined)
    \/ AwaitGetBudgetPerformance("GET /api/reports/budget-performance/:budgetId")

(***************************************************************************)
(* The REST handlers of expenses.  A body with a category name is handled  *)
(* in the legacy way: the name is resolved to a category of the user,      *)
(* which is created when the user has none of that name.                   *)
(***************************************************************************)
\* String.prototype.toLowerCase on the names that occur: the default
\* category names, the name "Coffee" that requests bring, and their lower
\* case forms.
LowerCase ==
    << <<"Children", "children">>, <<"Debt", "debt">>,
       <<"Education", "education">>, <<"Entertainment", "entertainment">>,
       <<"Everyday", "everyday">>, <<"Gifts", "gifts">>,
       <<"Health/medical", "health/medical">>, <<"Home", "home">>,
       <<"Insurance", "insurance">>, <<"Pets", "pets">>,
       <<"Technology", "technology">>, <<"Transportation", "transportation">>,
       <<"Travel", "travel">>, <<"Utilities", "utilities">>,
       <<"Coffee", "coffee">> >>

toLowerCase ==
    [n \in {LowerCase[k][1] : k \in 1..Len(LowerCase)}
            \cup {LowerCase[k][2] : k \in 1..Len(LowerCase)} |->
        LET at == {k \in 1..Len(LowerCase) : LowerCase[k][1] = n}
        IN  IF at = {} THEN n ELSE LowerCase[CHOOSE k \in at : TRUE][2]]

\* Mutant: the owner of the category is not compared.
FindExpenseCategoryOfAnyUser(userId, categoryName) ==
    LET found == {c \in DOMAIN expenseCategories :
                    toLowerCase[expenseCategories[c].name]
                            = toLowerCase[categoryName]}
    IN  IF found = {} THEN undefined
        ELSE expenseCategories[CHOOSE c \in found : \A d \in found : c <= d]

\* Array.from(this.expenseCategories.values()).find(...): the first match
\* in insertion order.
FindExpenseCategory(userId, categoryName) ==
    LET found == {c \in DOMAIN expenseCategories :
                    /\ expenseCategories[c].userId = userId
                    /\ toLowerCase[expenseCategories[c].name]
                            = toLowerCase[categoryName]}
    IN  IF found = {} THEN undefined
        ELSE expenseCategories[CHOOSE c \in found : \A d \in found : c <= d]

\* { ...rest, userId: expenseData.userId, categoryId }: the expense that the
\* legacy methods store once the name is resolved.
Resolved(expenseData, categoryId) ==
    [userId |-> expenseData.userId, amount |-> expenseData.amount,
     date |-> expenseData.date, categoryId |-> categoryId,
     subcategoryId |-> null]

\* The locals of the legacy methods: the name and the id it resolves to,
\* which is the next category id when a category is created.
LegacyLocals(userId, categoryName) ==
    LET foundCategory == FindExpenseCategory(userId, categoryName)
    IN  [category |-> categoryName,
         categoryId |-> IF foundCategory # undefined THEN foundCategory.id
                        ELSE nextExpenseCategoryId]

\* The call of createLegacyExpense, up to the end of the method or to its
\* await.  With a category of that name it creates the expense and is
\* over; with none it creates the category and awaits: the expense is
\* created when the method is resumed.
createLegacyExpense(expenseData) ==
    IF FindExpenseCategory(expenseData.userId, expenseData.category) # undefined
    THEN createExpense(Resolved(expenseData,
            LegacyLocals(expenseData.userId, expenseData.category).categoryId))
    ELSE createExpenseCategory(expenseData.userId, [name |-> expenseData.category])

\* The call of updateLegacyExpense, likewise; updateExpense throws when the
\* expense is not there.
updateLegacyExpense(id, expenseData) ==
    IF FindExpenseCategory(expenseData.userId, expenseData.category) # undefined
    THEN updateExpense(id, Resolved(expenseData,
            LegacyLocals(expenseData.userId, expenseData.category).categoryId))
    ELSE createExpenseCategory(expenseData.userId, [name |-> expenseData.category])

getExpenseById(id) ==
    IF id \in DOMAIN expenses THEN expenses[id] ELSE undefined

\* The bodies the schemas accept (amount is any number) and one they reject.
RouteExpenseInputs ==
    [amount : {7000, -7000}, date : {MonthStart},
     categoryId : CategoryInputs, subcategoryId : {null, 30}]
    \cup [amount : {7000, -7000}, date : {MonthStart},
          category : {"everyday", "Coffee"}]
    \cup {Malformed}

\* 'category' in data
IsLegacy(data) == "category" \in DOMAIN data

\* The expense that the handler stores with its last call: the body with
\* the user, in the legacy way with the category id the name resolved to.
ExpenseOf(h) ==
    IF IsLegacy(h.data)
    THEN Resolved(WithUser(h.data, h.user), h.value.categoryId)
    ELSE WithUser(h.data, h.user)

PostExpenseWithin(bound, inputs) ==
    \/ /\ Received(bound)
       /\ \E u \in Callers, data \in inputs :
           LET h == Request("POST /api/expenses", u, null, data)
               locals == LegacyLocals(u, data.category)
           IN  /\ IF ~requireAuth(u)
                  THEN Respond(h, null, 401) /\ UNCHANGED store
                  ELSE IF IsLegacy(data)
                  THEN /\ createLegacyExpense(WithUser(data, u))
                       /\ IF FindExpenseCategory(u, data.category) # undefined
                          THEN Answer(h, nextExpenseId, 201, locals)
                          ELSE Await(h, "createExpense", locals)
                  ELSE IF data = Malformed
                  THEN Respond(h, null, 400) /\ UNCHANGED store
                  ELSE IF InvalidCategory(u, data.categoryId)
                  THEN Respond(h, null, 403) /\ UNCHANGED store
                  ELSE IF data.subcategoryId # null
                  THEN Await(h, "getExpenseSubcategoryById", undefined) /\ UNCHANGED store
                  ELSE Await(h, "createExpense", undefined) /\ UNCHANGED store
    \/ \E h \in Awaiting("POST /api/expenses", "getExpenseSubcategoryById") :
        /\ UNCHANGED <<store, ops, seed>>
        /\ IF InvalidSubcategory(h.data) THEN Respond(h, null, 403)
           ELSE Await(h, "createExpense", undefined)
    \/ \E h \in Awaiting("POST /api/expenses", "createExpense") :
        /\ UNCHANGED <<ops, seed>>
        /\ createExpense(ExpenseOf(h))
        /\ Respond(h, nextExpenseId, 201)

PostExpense == PostExpenseWithin(MaxCalls, RouteExpenseInputs)

\* updateExpense throws when the expense is not there any more.
PatchExpense ==
    \/ /\ Received(MaxCalls)
       /\ \E u \in Callers, id \in 1..nextExpenseId, data \in RouteExpenseInputs :
           LET h == Request("PATCH /api/expenses/:id", u, id, data)
               expense == getExpenseById(id)
           IN  /\ UNCHANGED store
               /\ IF ~requireAuth(u) THEN Respond(h, id, 401)
                  ELSE IF expense = undefined THEN Respond(h, id, 404)
                  ELSE IF ~OwnedBy(expense, u) THEN Respond(h, id, 403)
                  ELSE IF IsLegacy(data) THEN Await(h, "updateLegacyExpense", undefined)
                  ELSE IF data = Malformed THEN Respond(h, id, 400)
                  ELSE Await(h, "getExpenseCategoryById", undefined)
    \/ \E h \in Awaiting("PATCH /api/expenses/:id", "updateLegacyExpense") :
        LET locals == LegacyLocals(h.user, h.data.category)
        IN  /\ UNCHANGED <<ops, seed>>
            /\ IF FindExpenseCategory(h.user, h.data.category) = undefined
               THEN /\ updateLegacyExpense(h.id, WithUser(h.data, h.user))
                    /\ Await(h, "updateExpense", locals)
               ELSE IF h.id \in DOMAIN expenses
               THEN /\ updateLegacyExpense(h.id, WithUser(h.data, h.user))
                    /\ Answer(h, h.id, 200, locals)
               ELSE /\ UNCHANGED store
                    /\ Answer(h, h.id, 500, locals)
    \/ \E h \in Awaiting("PATCH /api/expenses/:id", "getExpenseCategoryById") :
        /\ UNCHANGED <<store, ops, seed>>
        /\ IF InvalidCategory(h.user, h.data.categoryId) THEN Respond(h, h.id, 403)
           ELSE IF h.data.subcategoryId # null
           THEN Await(h, "getExpenseSubcategoryById", undefined)
           ELSE Await(h, "updateExpense", undefined)
    \/ \E h \in Awaiting("PATCH /api/expenses/:id", "getExpenseSubcategoryById") :
        /\ UNCHANGED <<store, ops, seed>>
        /\ IF InvalidSubcategory(h.data) THEN Respond(h, h.id, 403)
           ELSE Await(h, "updateExpense", undefined)
    \/ \E h \in Awaiting("PATCH /api/expenses/:id", "updateExpense") :
        /\ UNCHANGED <<ops, seed>>
        /\ IF h.id \in DOMAIN expenses
           THEN updateExpense(h.id, ExpenseOf(h)) /\ Respond(h, h.id, 200)
           ELSE UNCHANGED store /\ Respond(h, h.id, 500)

\* deleteExpense throws when the expense is not there any more.
DeleteExpense ==
    \/ /\ Received(MaxCalls)
       /\ \E u \in Callers, id \in 1..nextExpenseId :
           LET h == Request("DELETE /api/expenses/:id", u, id, undefined)
               expense == getExpenseById(id)
           IN  /\ UNCHANGED store
               /\ IF ~requireAuth(u) THEN Respond(h, id, 401)
                  ELSE IF expense = undefined THEN Respond(h, id, 404)
                  ELSE IF ~OwnedBy(expense, u) THEN Respond(h, id, 403)
                  ELSE Await(h, "deleteExpense", undefined)
    \/ \E h \in Awaiting("DELETE /api/expenses/:id", "deleteExpense") :
        /\ UNCHANGED <<ops, seed>>
        /\ IF h.id \in DOMAIN expenses
           THEN deleteExpense(h.id) /\ Respond(h, h.id, 204)
           ELSE UNCHANGED store /\ Respond(h, h.id, 500)

(***************************************************************************)
(* Vocabulary of the properties.  The sums below are taken over sets of    *)
(* ids, independently of the folds of the computation.                     *)
(***************************************************************************)
\* Requests are handled once createDemoAccounts has returned: a step taken
\* from a state where Seeded holds is the handling of a request or the step
\* of a call, never a step of the seeding.
\*
\* The last call was one of getBudgetPerformance whose result was computed
\* from what the store holds (the calls that other calls ran under are the
\* subject of C11).
Called == res.called /\ Undisturbed

\* ... and it returned a value.
Returned == Called /\ ~res.threw

RECURSIVE SumOfAmounts(_, _)
SumOfAmounts(m, ids) ==
    IF ids = {} THEN 0
    ELSE LET i == CHOOSE x \in ids : TRUE
         IN  m[i].amount + SumOfAmounts(m, ids \ {i})

AllocationIdsOf(budgetId) ==
    {a \in DOMAIN budgetAllocations : budgetAllocations[a].budgetId = budgetId}

\* The expenses of the budget's user in the category.
OwnedInCategory(budget, categoryId) ==
    {e \in DOMAIN expenses :
        expenses[e].userId = budget.userId /\ expenses[e].categoryId = categoryId}

Inside(budget, e) ==
    budget.startDate <= expenses[e].date /\ expenses[e].date <= budget.endDate

Outside(budget, e) ==
    expenses[e].date < budget.startDate \/ expenses[e].date > budget.endDate

OnBoundary(budget, e) ==
    expenses[e].date = budget.startDate \/ expenses[e].date = budget.endDate

StrictlyInside(budget, e) ==
    budget.startDate < expenses[e].date /\ expenses[e].date < budget.endDate

Matching(budget, categoryId) ==
    {e \in OwnedInCategory(budget, categoryId) : Inside(budget, e)}

\* The allocation behind the k-th entry of the returned categories list.
AllocationOfEntry(k) == budgetAllocations[Ascending(AllocationIdsOf(res.id))[k]]

Entries == 1..Len(res.value.categories)

RECURSIVE SumOfMatching(_, _)
SumOfMatching(budget, allocationIds) ==
    IF allocationIds = {} THEN 0
    ELSE LET a == CHOOSE x \in allocationIds : TRUE
         IN  SumOfAmounts(expenses, Matching(budget, budgetAllocations[a].categoryId))
                + SumOfMatching(budget, allocationIds \ {a})

RECURSIVE SumOfSpent(_)
SumOfSpent(categories) ==
    IF categories = <<>> THEN 0
    ELSE Head(categories).spent + SumOfSpent(Tail(categories))

(***************************************************************************)
(* C1: for every allocation A of an existing budget B, the entry that      *)
(* getBudgetPerformance produces for A has spent equal to the sum of the   *)
(* amounts of exactly the expenses owned by B's user with A's category and *)
(* startDate <= date <= endDate; with no such expense it is exactly 0,     *)
(* and the field is always there.                                          *)
(***************************************************************************)
C1_SpentIsSumOfMatchingExpenses ==
    Returned =>
        /\ Len(res.value.categories) = Cardinality(AllocationIdsOf(res.id))
        /\ \A k \in Entries :
            LET matching == Matching(budgets[res.id], AllocationOfEntry(k).categoryId)
            IN  /\ "spent" \in DOMAIN res.value.categories[k]
                /\ res.value.categories[k].spent = SumOfAmounts(expenses, matching)
                /\ (matching = {} => res.value.categories[k].spent = 0)

\* Two matching expenses are summed for one allocation, and another
\* allocation has none.
C1_Witness ==
    /\ Returned
    /\ \E k \in Entries :
        Cardinality(Matching(budgets[res.id], AllocationOfEntry(k).categoryId)) >= 2
    /\ \E k \in Entries :
        /\ Matching(budgets[res.id], AllocationOfEntry(k).categoryId) = {}
        /\ res.value.categories[k].spent = 0

(***************************************************************************)
(* C2: an expense dated strictly before startDate or strictly after        *)
(* endDate contributes to no per-category spent and not to the top-level   *)
(* spent, even in an allocated category: each spent is the sum over the    *)
(* user's expenses of the category less the sum over those out of the      *)
(* period, and the top-level spent is the total of that over the           *)
(* allocations.                                                            *)
(***************************************************************************)
C2_OutOfPeriodNeverCounts ==
    Returned =>
        LET budget == budgets[res.id]
        IN  /\ \A k \in Entries :
                LET owned == OwnedInCategory(budget, AllocationOfEntry(k).categoryId)
                    out == {e \in owned : Outside(budget, e)}
                IN  res.value.categories[k].spent =
                        SumOfAmounts(expenses, owned) - SumOfAmounts(expenses, out)
            /\ res.value.spent = SumOfMatching(budget, AllocationIdsOf(res.id))

\* One expense before the period and one after it, both in allocated
\* categories of the budget's user.
C2_Witness ==
    /\ Returned
    /\ \E k1 \in Entries, k2 \in Entries :
        /\ \E e \in OwnedInCategory(budgets[res.id], AllocationOfEntry(k1).categoryId) :
                expenses[e].date < budgets[res.id].startDate
        /\ \E e \in OwnedInCategory(budgets[res.id], AllocationOfEntry(k2).categoryId) :
                expenses[e].date > budgets[res.id].endDate

(***************************************************************************)
(* C3: the period is closed on both ends: an expense of the budget's user  *)
(* dated exactly on startDate or exactly on endDate, in an allocated       *)
(* category, is part of spent, as the expenses dated between the two are.  *)
(***************************************************************************)
C3_BoundaryDatesIncluded ==
    Returned =>
        LET budget == budgets[res.id]
        IN  \A k \in Entries :
                LET owned == OwnedInCategory(budget, AllocationOfEntry(k).categoryId)
                IN  res.value.categories[k].spent =
                        SumOfAmounts(expenses, {e \in owned : OnBoundary(budget, e)})
                        + SumOfAmounts(expenses, {e \in owned : StrictlyInside(budget, e)})

(***************************************************************************)
(* C4: for an existing budget without allocations getBudgetPerformance     *)
(* returns allocated = 0, spent = 0, remaining = 0 and categories = [],    *)
(* whatever expenses the user has.                                         *)
(***************************************************************************)
C4_NoAllocationsGivesZeroes ==
    (Returned /\ AllocationIdsOf(res.id) = {}) =>
        /\ res.value.allocated = 0
        /\ res.value.spent = 0
        /\ res.value.remaining = 0
        /\ Len(res.value.categories) = 0

\* A budget without allocations whose user has an expense inside the period,
\* while other budgets do have allocations.
C4_Witness ==
    /\ Returned
    /\ AllocationIdsOf(res.id) = {}
    /\ DOMAIN budgetAllocations # {}
    /\ \E e \in DOMAIN expenses :
        expenses[e].userId = budgets[res.id].userId /\ Inside(budgets[res.id], e)

(***************************************************************************)
(* C5: in every result, each entry has remaining = allocated - spent, and  *)
(* so has the top level.                                                   *)
(***************************************************************************)
C5_RemainingIsAllocatedMinusSpent ==
    Returned =>
        /\ \A k \in Entries :
            res.value.categories[k].remaining =
                res.value.categories[k].allocated - res.value.categories[k].spent
        /\ res.value.remaining = res.value.allocated - res.value.spent

C5_Witness ==
    /\ Returned
    /\ \E k \in Entries :
        /\ res.value.categories[k].spent > 0
        /\ res.value.categories[k].remaining # res.value.categories[k].allocated
    /\ res.value.remaining # res.value.allocated

(***************************************************************************)
(* C6: the top-level allocated is the sum of the amounts of exactly the    *)
(* allocations whose budgetId is the budget's (those of other budgets      *)
(* never count), and the top-level spent is the sum of the spent values of *)
(* the returned categories list.                                           *)
(***************************************************************************)
C6_TopLevelSums ==
    Returned =>
        /\ res.value.allocated = SumOfAmounts(budgetAllocations, AllocationIdsOf(res.id))
        /\ res.value.spent = SumOfSpent(res.value.categories)

\* The store holds an allocation of another budget; this budget has several
\* allocations and some spending.
C6_Witness ==
    /\ Returned
    /\ \E a \in DOMAIN budgetAllocations : budgetAllocations[a].budgetId # res.id
    /\ Cardinality(AllocationIdsOf(res.id)) >= 2
    /\ res.value.spent > 0

(***************************************************************************)
(* C7: the categories list has exactly one entry per allocation of the     *)
(* budget, with that allocation's categoryId and amount; a category with   *)
(* expenses inside the period but no allocation in the budget has no entry *)
(* and adds nothing to the top-level spent.                                *)
(***************************************************************************)
UnallocatedSpending(budgetId) ==
    {e \in DOMAIN expenses :
        /\ expenses[e].userId = budgets[budgetId].userId
        /\ Inside(budgets[budgetId], e)
        /\ \A a \in AllocationIdsOf(budgetId) :
                budgetAllocations[a].categoryId # expenses[e].categoryId}

C7_OneEntryPerAllocation ==
    Returned =>
        /\ Len(res.value.categories) = Cardinality(AllocationIdsOf(res.id))
        /\ \A k \in Entries :
            /\ res.value.categories[k].categoryId = AllocationOfEntry(k).categoryId
            /\ res.value.categories[k].allocated = AllocationOfEntry(k).amount
        /\ \A e \in UnallocatedSpending(res.id) :
            \A k \in Entries : res.value.categories[k].categoryId # expenses[e].categoryId
        /\ res.value.spent = SumOfMatching(budgets[res.id], AllocationIdsOf(res.id))

\* The user has an expense inside the period in a category the budget does
\* not allocate, next to allocated spending.
C7_Witness ==
    /\ Returned
    /\ UnallocatedSpending(res.id) # {}
    /\ Entries # {}
    /\ res.value.spent > 0

(***************************************************************************)
(* C8: when the spending inside the period in an allocated category        *)
(* exceeds the allocation, getBudgetPerformance returns normally and the   *)
(* entry's remaining is the negative number allocated - spent; the same    *)
(* holds at the top level.                                                 *)
(***************************************************************************)
C8_OverBudgetIsAResult ==
    (Called /\ res.id \in DOMAIN budgets) =>
        /\ ~res.threw
        /\ \A k \in Entries :
            LET sum == SumOfAmounts(expenses,
                           Matching(budgets[res.id], AllocationOfEntry(k).categoryId))
            IN  sum > AllocationOfEntry(k).amount =>
                    /\ res.value.categories[k].remaining = AllocationOfEntry(k).amount - sum
                    /\ res.value.categories[k].remaining < 0
        /\ LET total == SumOfMatching(budgets[res.id], AllocationIdsOf(res.id))
               allocated == SumOfAmounts(budgetAllocations, AllocationIdsOf(res.id))
           IN  total > allocated =>
                    /\ res.value.remaining = allocated - total
                    /\ res.value.remaining < 0

\* Over budget in one category and in total.
C8_Witness ==
    /\ Returned
    /\ \E k \in Entries : res.value.categories[k].remaining < 0
    /\ res.value.remaining < 0

(***************************************************************************)
(* C9: getBudgetPerformance has no side effect: every step of an           *)
(* invocation, from the call to the return, leaves every map and every id  *)
(* counter as it was, and of two invocations for the same budget with no   *)
(* other call from the first to the return of the second, the second gives *)
(* the outcome of the first.                                               *)
(***************************************************************************)
C9_NoSideEffects ==
    [][/\ frame'.pc # frame.pc => store' = store
       /\ (frame'.pc = "returned" /\ frame'.before # undefined) =>
                frame'.result = frame'.before]_vars

\* A second invocation for a budget with spending returned, after the
\* store had been changed and then the first had run.
C9_Witness ==
    /\ frame.pc = "returned"
    /\ frame.before # undefined
    /\ ~frame.result.threw
    /\ ops > 0
    /\ frame.result.value.spent > 0

(***************************************************************************)
(* C10: a request for the performance of a budget that does not exist is   *)
(* answered 404, one for a budget of another user 403; either way          *)
(* getBudgetPerformance is not invoked, and it never raises an error.      *)
(***************************************************************************)
\* The last step answered an authenticated request for a performance.
PerformanceRequest ==
    /\ res.op \in {"GET /api/reports/budget-performance/:budgetId",
                   "GET /api/budgets/:id"}
    /\ res.user # null
    /\ res.status # 0

C10_MissingIs404ForeignIs403 ==
    PerformanceRequest =>
        /\ res.id \notin DOMAIN budgets => (res.status = 404 /\ ~res.called)
        /\ (res.id \in DOMAIN budgets /\ budgets[res.id].userId # res.user)
                => (res.status = 403 /\ ~res.called)
        /\ ~res.threw

(***************************************************************************)
(* C11: whatever calls that create, update or delete budgets, allocations  *)
(* or expenses run between the awaits of a getBudgetPerformance            *)
(* invocation, what the invocation returns is the performance of one       *)
(* store state that existed between its call and its return.               *)
(***************************************************************************)
C11_ResultOfOneStoreState ==
    frame.pc = "returned" => frame.result \in frame.existed

(***************************************************************************)
(* C12: the performance of a budget does not depend on the data of other   *)
(* users.  Whatever has been created, updated or deleted since an          *)
(* invocation returned, as long as the store holds the same budget, the    *)
(* same allocations of the budget and the same expenses of the budget's    *)
(* user as the invocation read, a call for the budget in the present store *)
(* returns what the invocation returned.                                   *)
(***************************************************************************)
ExpenseIdsOf(userId) == {e \in DOMAIN expenses : expenses[e].userId = userId}

Elements(seq) == {seq[k] : k \in 1..Len(seq)}

\* The store agrees with what the returned invocation read on the budget,
\* on its allocations and on the expenses owned by its user.
AgreesOnOwnData ==
    /\ frame.pc = "returned"
    /\ ~frame.result.threw
    /\ frame.budgetId \in DOMAIN budgets
    /\ budgets[frame.budgetId] = frame.budget
    /\ {budgetAllocations[a] : a \in AllocationIdsOf(frame.budgetId)}
            = Elements(frame.allocations)
    /\ {expenses[e] : e \in ExpenseIdsOf(frame.budget.userId)}
            = Elements(frame.expenses)

C12_IndependentOfOtherUsers ==
    AgreesOnOwnData => getBudgetPerformance(frame.budgetId) = frame.result

\* Since the invocation returned, an expense of another user has been put
\* in an allocated category of the budget, inside its period.
C12_Witness ==
    /\ AgreesOnOwnData
    /\ frame.result.value.spent > 0
    /\ res.op \in {"createExpense", "updateExpense"}
    /\ \E a \in AllocationIdsOf(frame.budgetId) :
            /\ res.id \in DOMAIN expenses
            /\ expenses[res.id].userId # frame.budget.userId
            /\ expenses[res.id].categoryId = budgetAllocations[a].categoryId
            /\ Inside(frame.budget, res.id)

(***************************************************************************)
(* C13: an expense or a budget is updated or deleted only by a request     *)
(* authenticated as its owner.  A PATCH or DELETE of /api/expenses/:id or  *)
(* /api/budgets/:id by another user is answered 403 and leaves the store   *)
(* as it was, whatever a request changes or removes belongs to its caller, *)
(* and the userId of an expense or budget stays what it was at creation.   *)
(***************************************************************************)
ExpenseWrites == {"PATCH /api/expenses/:id", "DELETE /api/expenses/:id"}
BudgetWrites == {"PATCH /api/budgets/:id", "DELETE /api/budgets/:id"}

\* The last request was a write of an expense or budget of somebody else.
ForeignWrite ==
    /\ res.user # null
    /\ \/ /\ res.op \in ExpenseWrites
          /\ res.id \in DOMAIN expenses
          /\ expenses[res.id].userId # res.user
       \/ /\ res.op \in BudgetWrites
          /\ res.id \in DOMAIN budgets
          /\ budgets[res.id].userId # res.user

C13_OnlyOwnerWrites ==
    [][/\ \A e \in DOMAIN expenses :
            /\ (e \notin DOMAIN expenses' \/ expenses'[e] # expenses[e])
                    => res'.user = expenses[e].userId
            /\ e \in DOMAIN expenses' => expenses'[e].userId = expenses[e].userId
       /\ \A b \in DOMAIN budgets :
            /\ (b \notin DOMAIN budgets' \/ budgets'[b] # budgets[b])
                    => res'.user = budgets[b].userId
            /\ b \in DOMAIN budgets' => budgets'[b].userId = budgets[b].userId
       /\ (/\ res'.user # null
           /\ \/ /\ res'.op \in ExpenseWrites
                 /\ res'.id \in DOMAIN expenses
                 /\ expenses[res'.id].userId # res'.user
              \/ /\ res'.op \in BudgetWrites
                 /\ res'.id \in DOMAIN budgets
                 /\ budgets[res'.id].userId # res'.user)
            => (res'.status = 403 /\ store' = store)]_vars

\* A user asked to change an expense of another user and was refused.
C13_Witness ==
    /\ ForeignWrite
    /\ res.op = "PATCH /api/expenses/:id"
    /\ res.status = 403

(***************************************************************************)
(* C14: a budget allocation is created, updated or deleted only by the     *)
(* owner of the budget it belongs to: a request that changes or removes    *)
(* an allocation, PATCH and DELETE /api/budget-allocations/:id included,   *)
(* comes from the owner of the allocation's budget, and a new allocation   *)
(* is put in a budget of the caller.                                       *)
(***************************************************************************)
C14_OnlyBudgetOwnerWritesAllocations ==
    [][Seeded =>
       /\ \A a \in DOMAIN budgetAllocations :
            (/\ a \notin DOMAIN budgetAllocations'
                    \/ budgetAllocations'[a] # budgetAllocations[a]
             /\ budgetAllocations[a].budgetId \in DOMAIN budgets)
                => res'.user = budgets[budgetAllocations[a].budgetId].userId
       /\ \A a \in DOMAIN budgetAllocations' \ DOMAIN budgetAllocations :
            /\ budgetAllocations'[a].budgetId \in DOMAIN budgets
            /\ res'.user = budgets[budgetAllocations'[a].budgetId].userId]_vars

(***************************************************************************)
(* C15: after any sequence of POST /api/budgets and PATCH                  *)
(* /api/budgets/:id, every budget in the store has startDate <= endDate.   *)
(***************************************************************************)
C15_StartNotAfterEnd ==
    \A b \in DOMAIN budgets : budgets[b].startDate <= budgets[b].endDate

(***************************************************************************)
(* C16: after any sequence of create and update requests every expense     *)
(* amount and every allocation amount in the store is non-negative, and    *)
(* so is every spent and allocated figure of a performance.                *)
(***************************************************************************)
C16_AmountsNonNegative ==
    /\ \A e \in DOMAIN expenses : expenses[e].amount >= 0
    /\ \A a \in DOMAIN budgetAllocations : budgetAllocations[a].amount >= 0
    /\ Returned =>
            /\ res.value.allocated >= 0
            /\ res.value.spent >= 0
            /\ \A k \in Entries :
                    /\ res.value.categories[k].allocated >= 0
                    /\ res.value.categories[k].spent >= 0

C18_UnauthenticatedIs401 ==
    [][(Seeded /\ res'.user = null) =>
            /\ res'.status = 401
            /\ res'.pc = "request"
            /\ ~res'.called
            /\ res'.value = undefined
            /\ store' = store
            /\ handlers' = handlers]_vars

\* An unauthenticated DELETE of an allocation that exists: the route has no
\* check but requireAuth.
C18_Witness ==
    /\ res.op = "DELETE /api/budget-allocations/:id"
    /\ res.user = null
    /\ res.status = 401
    /\ res.id \in DOMAIN budgetAllocations

(***************************************************************************)
(* The admin routes.  requireAdmin asks the storage for the role of the    *)
(* caller at every request and awaits it; the handler it lets through      *)
(* makes its storage call in a later turn.  PATCH                          *)
(* /api/admin/users/:id/role writes the role of any user id, registered or *)
(* not.                                                                    *)
(***************************************************************************)
\* this.userRoles.get(userId) || 'user': the role stored for the id unless
\* there is none or it is the empty string.
getUserRole(userId) ==
    IF userId \in DOMAIN userRoles /\ userRoles[userId] # ""
    THEN userRoles[userId]
    ELSE "user"

setUserRole(userId, role) ==
    /\ userRoles' = MapSet(userRoles, userId, role)
    /\ UNCHANGED <<users, expenses, incomes, expenseCategories,
                   expenseSubcategories, incomeCategories, incomeSubcategories,
                   budgets, budgetAllocations>>
    /\ UNCHANGED counters

\* next() is called
Passed == 0

\* Mutant: the role of the caller is not asked for.
requireAdminWithoutRole(u) == IF u = null THEN 401 ELSE Passed

\* The status requireAdmin answers with, or Passed when it calls next().
requireAdmin(u) ==
    IF u = null THEN 401
    ELSE IF getUserRole(u) # "admin" THEN 403
    ELSE Passed

\* A GET route behind requireAdmin.  The middleware awaits getUserRole and
\* calls next() for an admin; the handler then awaits call, the storage
\* method that lists the records, and answers 200.
GetAdmin(op, call) ==
    \/ /\ ReceivedGet
       /\ \E u \in Callers :
           LET h == Request(op, u, null, undefined)
           IN  /\ UNCHANGED store
               /\ IF requireAdmin(u) # Passed
                  THEN Respond(h, null, requireAdmin(u))
                  ELSE Await(h, call, undefined)
    \/ \E h \in Awaiting(op, call) :
        /\ UNCHANGED <<store, ops, seed>>
        /\ Respond(h, null, 200)

GetAdminUsers == GetAdmin("GET /api/admin/users", "getAllUsers")

GetAdminExpenses == GetAdmin("GET /api/admin/expenses", "getAllExpenses")

GetAdminIncomes == GetAdmin("GET /api/admin/incomes", "getAllIncomes")

\* value keeps the role the request asked for.
PatchAdminUserRole ==
    \* 'root' and the empty string are roles the handler rejects.
    \/ /\ ReceivedGet
       /\ \E u \in Callers, userId \in 1..nextUserId,
             role \in {"admin", "user", "root", ""} :
           LET h == Request("PATCH /api/admin/users/:id/role", u, userId,
                            [role |-> role])
           IN  /\ UNCHANGED store
               /\ IF requireAdmin(u) # Passed
                  THEN Answer(h, userId, requireAdmin(u), h.data)
                  ELSE IF role \notin {"admin", "user"}
                  THEN Answer(h, userId, 400, h.data)
                  ELSE Await(h, "setUserRole", h.data)
    \/ \E h \in Awaiting("PATCH /api/admin/users/:id/role", "setUserRole") :
        /\ UNCHANGED <<ops, seed>>
        /\ setUserRole(h.id, h.data.role)
        /\ Respond(h, h.id, 200)

NextAdmin ==
    \/ ResumeCreateDemoAccountsInFebruary
    \/ GetAdminUsers
    \/ GetAdminExpenses
    \/ GetAdminIncomes
    \/ PatchAdminUserRole

SpecAdmin == Init /\ [][NextAdmin]_vars

(***************************************************************************)
(* C19: an authenticated user whose role, as getUserRole returns it to     *)
(* requireAdmin, is not 'admin' gets 403 from every /api/admin route and   *)
(* changes nothing; only a request that requireAdmin has let through lists *)
(* records or writes a role; an admin is not refused, and the role an      *)
(* admin sets is the role getUserRole gives from then on, so it decides    *)
(* the next admin request of the user concerned.                           *)
(***************************************************************************)
C19_AdminRoutesNeedAdminRole ==
    [][(Seeded /\ res'.user # null) =>
            /\ (res'.pc = "request" /\ getUserRole(res'.user) # "admin")
                    => (res'.status = 403 /\ store' = store /\ handlers' = handlers)
            /\ (res'.pc = "request" /\ getUserRole(res'.user) = "admin")
                    => res'.status \in {0, 400}
            /\ (res'.status = 200 \/ store' # store)
                    => \E h \in BagToSet(handlers) :
                            /\ h.user = res'.user
                            /\ h.op = res'.op
                            /\ h.pc = res'.pc
            /\ res'.status = 200 /\ res'.op = "PATCH /api/admin/users/:id/role"
                    => userRoles'[res'.id] = res'.value.role]_vars

\* demo, a plain user at construction, has been let through an admin route
\* and admin, demoted since, would be refused.
C19_Witness ==
    /\ res.op = "GET /api/admin/expenses"
    /\ res.user = 1
    /\ res.status = 200
    /\ getUserRole(AdminId) = "user"

(***************************************************************************)
(* The creates and deletes of every kind of record and the updates of the  *)
(* user settings, incomes, income categories and income subcategories,     *)
(* called in any order, MaxCalls calls at most.  A create is called with   *)
(* one input per kind (an allocation for either of two budget ids), a      *)
(* delete for the first and for the last id issued of its kind, an update  *)
(* for the first id and for an id not issued yet.                          *)
(*                                                                         *)
(* The calls are made once createDemoAccounts has returned, as those of    *)
(* the request handlers are: the method awaits nothing but MemStorage      *)
(* methods, so it has run to its end before the first request is handled.  *)
(* A caller in the tick of the construction finds the store empty;         *)
(* createUser stands for such a caller.                                    *)
(***************************************************************************)
DeleteIds(nextId) == {1, nextId - 1}

\* createUser is also called in the tick of the construction, before
\* createDemoAccounts is resumed for the first time.
IdsCreateUser ==
    /\ Seeded \/ Awaits[seed.at] = "getUserByUsername(demo)"
    /\ ops < MaxCalls
    /\ createUser([username |-> "new"])
    /\ ops' = ops + 1 /\ UNCHANGED <<frame, handlers, seed>>
    /\ res' = Outcome("createUser", nextUserId, FALSE)

IdsCreateExpense ==
    /\ Seeded
    /\ ops < MaxCalls
    /\ createExpense([userId |-> 1, amount |-> 7000, date |-> MonthStart,
                          categoryId |-> 5, subcategoryId |-> null])
    /\ ops' = ops + 1 /\ UNCHANGED <<frame, handlers, seed>>
    /\ res' = Outcome("createExpense", nextExpenseId, FALSE)

IdsDeleteExpense ==
    \E id \in DeleteIds(nextExpenseId) :
        /\ Seeded
        /\ ops < MaxCalls
        /\ IF id \in DOMAIN expenses THEN deleteExpense(id) ELSE UNCHANGED store
        /\ ops' = ops + 1 /\ UNCHANGED <<frame, handlers, seed>>
        /\ res' = Outcome("deleteExpense", id, ~(id \in DOMAIN expenses))

IdsCreateIncome ==
    /\ Seeded
    /\ ops < MaxCalls
    /\ createIncome([userId |-> 1, amount |-> 7000, date |-> MonthStart,
                     categoryId |-> 1, subcategoryId |-> null])
    /\ ops' = ops + 1 /\ UNCHANGED <<frame, handlers, seed>>
    /\ res' = Outcome("createIncome", nextIncomeId, FALSE)

IdsDeleteIncome ==
    \E id \in DeleteIds(nextIncomeId) :
        /\ Seeded
        /\ ops < MaxCalls
        /\ IF id \in DOMAIN incomes THEN deleteIncome(id) ELSE UNCHANGED store
        /\ ops' = ops + 1 /\ UNCHANGED <<frame, handlers, seed>>
        /\ res' = Outcome("deleteIncome", id, ~(id \in DOMAIN incomes))

IdsCreateExpenseCategory ==
    /\ Seeded
    /\ ops < MaxCalls
    /\ createExpenseCategory(1, [name |-> "Coffee"])
    /\ ops' = ops + 1 /\ UNCHANGED <<frame, handlers, seed>>
    /\ res' = Outcome("createExpenseCategory", nextExpenseCategoryId, FALSE)

IdsDeleteExpenseCategory ==
    \E id \in DeleteIds(nextExpenseCategoryId) :
        /\ Seeded
        /\ ops < MaxCalls
        /\ IF ~ExpenseCategoryInUse(id) THEN deleteExpenseCategory(id) ELSE UNCHANGED store
        /\ ops' = ops + 1 /\ UNCHANGED <<frame, handlers, seed>>
        /\ res' = Outcome("deleteExpenseCategory", id, ~(~ExpenseCategoryInUse(id)))

IdsCreateExpenseSubcategory ==
    /\ Seeded
    /\ ops < MaxCalls
    /\ createExpenseSubcategory(1, [categoryId |-> 5, name |-> "Coffee"])
    /\ ops' = ops + 1 /\ UNCHANGED <<frame, handlers, seed>>
    /\ res' = Outcome("createExpenseSubcategory", nextExpenseSubcategoryId, FALSE)

IdsDeleteExpenseSubcategory ==
    \E id \in DeleteIds(nextExpenseSubcategoryId) :
        /\ Seeded
        /\ ops < MaxCalls
        /\ IF ~ExpenseSubcategoryInUse(id) THEN deleteExpenseSubcategory(id) ELSE UNCHANGED store
        /\ ops' = ops + 1 /\ UNCHANGED <<frame, handlers, seed>>
        /\ res' = Outcome("deleteExpenseSubcategory", id, ~(~ExpenseSubcategoryInUse(id)))

IdsCreateIncomeCategory ==
    /\ Seeded
    /\ ops < MaxCalls
    /\ createIncomeCategory(1, [name |-> "Salary"])
    /\ ops' = ops + 1 /\ UNCHANGED <<frame, handlers, seed>>
    /\ res' = Outcome("createIncomeCategory", nextIncomeCategoryId, FALSE)

IdsDeleteIncomeCategory ==
    \E id \in DeleteIds(nextIncomeCategoryId) :
        /\ Seeded
        /\ ops < MaxCalls
        /\ IF ~IncomeCategoryInUse(id) THEN deleteIncomeCategory(id) ELSE UNCHANGED store
        /\ ops' = ops + 1 /\ UNCHANGED <<frame, handlers, seed>>
        /\ res' = Outcome("deleteIncomeCategory", id, ~(~IncomeCategoryInUse(id)))

IdsCreateIncomeSubcategory ==
    /\ Seeded
    /\ ops < MaxCalls
    /\ createIncomeSubcategory(1, [categoryId |-> 1, name |-> "Salary"])
    /\ ops' = ops + 1 /\ UNCHANGED <<frame, handlers, seed>>
    /\ res' = Outcome("createIncomeSubcategory", nextIncomeSubcategoryId, FALSE)

IdsDeleteIncomeSubcategory ==
    \E id \in DeleteIds(nextIncomeSubcategoryId) :
        /\ Seeded
        /\ ops < MaxCalls
        /\ IF ~IncomeSubcategoryInUse(id) THEN deleteIncomeSubcategory(id) ELSE UNCHANGED store
        /\ ops' = ops + 1 /\ UNCHANGED <<frame, handlers, seed>>
        /\ res' = Outcome("deleteIncomeSubcategory", id, ~(~IncomeSubcategoryInUse(id)))

IdsCreateBudget ==
    /\ Seeded
    /\ ops < MaxCalls
    /\ createBudget([userId |-> 1, title |-> "Budget", startDate |-> MonthStart,
                         endDate |-> MonthEnd, totalBudget |-> 100000])
    /\ ops' = ops + 1 /\ UNCHANGED <<frame, handlers, seed>>
    /\ res' = Outcome("createBudget", nextBudgetId, FALSE)

IdsDeleteBudget ==
    \E id \in DeleteIds(nextBudgetId) :
        /\ Seeded
        /\ ops < MaxCalls
        /\ IF id \in DOMAIN budgets THEN deleteBudget(id) ELSE UNCHANGED store
        /\ ops' = ops + 1 /\ UNCHANGED <<frame, handlers, seed>>
        /\ res' = Outcome("deleteBudget", id, ~(id \in DOMAIN budgets))

IdsCreateBudgetAllocation ==
    \E budgetId \in {1, 2} :
        /\ Seeded
        /\ ops < MaxCalls
        /\ createBudgetAllocation([budgetId |-> budgetId, categoryId |-> 5,
                                   subcategoryId |-> null, amount |-> 7000])
        /\ ops' = ops + 1 /\ UNCHANGED <<frame, handlers, seed>>
        /\ res' = Outcome("createBudgetAllocation", nextBudgetAllocationId, FALSE)

IdsDeleteBudgetAllocation ==
    \E id \in DeleteIds(nextBudgetAllocationId) :
        /\ Seeded
        /\ ops < MaxCalls
        /\ IF id \in DOMAIN budgetAllocations THEN deleteBudgetAllocation(id) ELSE UNCHANGED store
        /\ ops' = ops + 1 /\ UNCHANGED <<frame, handlers, seed>>
        /\ res' = Outcome("deleteBudgetAllocation", id, ~(id \in DOMAIN budgetAllocations))

IdsUpdateUserSettings ==
    \E userId \in {1, nextUserId}, currency \in {"USD", ""} :
        /\ Seeded
        /\ ops < MaxCalls
        /\ IF userId \in DOMAIN users
           THEN updateUserSettings(userId, [currency |-> currency])
           ELSE UNCHANGED store
        /\ ops' = ops + 1 /\ UNCHANGED <<frame, handlers, seed>>
        /\ res' = Outcome("updateUserSettings", userId, ~(userId \in DOMAIN users))

IdsUpdateIncome ==
    \E id \in {1, nextIncomeId} :
        /\ Seeded
        /\ ops < MaxCalls
        /\ IF id \in DOMAIN incomes
           THEN updateIncome(id, [userId |-> AdminId, amount |-> 1,
                                  date |-> MonthEnd,
                                  categoryId |-> nextIncomeCategoryId - 1,
                                  subcategoryId |-> null])
           ELSE UNCHANGED store
        /\ ops' = ops + 1 /\ UNCHANGED <<frame, handlers, seed>>
        /\ res' = Outcome("updateIncome", id, ~(id \in DOMAIN incomes))

IdsUpdateIncomeCategory ==
    \E id \in {1, nextIncomeCategoryId} :
        /\ Seeded
        /\ ops < MaxCalls
        /\ IF id \in DOMAIN incomeCategories
           THEN updateIncomeCategory(id, [name |-> "Salary"])
           ELSE UNCHANGED store
        /\ ops' = ops + 1 /\ UNCHANGED <<frame, handlers, seed>>
        /\ res' = Outcome("updateIncomeCategory", id,
                          ~(id \in DOMAIN incomeCategories))

IdsUpdateIncomeSubcategory ==
    \E id \in {1, nextIncomeSubcategoryId} :
        /\ Seeded
        /\ ops < MaxCalls
        /\ IF id \in DOMAIN incomeSubcategories
           THEN updateIncomeSubcategory(id,
                    [categoryId |-> nextIncomeCategoryId - 1, name |-> "Salary"])
           ELSE UNCHANGED store
        /\ ops' = ops + 1 /\ UNCHANGED <<frame, handlers, seed>>
        /\ res' = Outcome("updateIncomeSubcategory", id,
                          ~(id \in DOMAIN incomeSubcategories))

NextIds ==
    \/ ResumeCreateDemoAccounts
    \/ IdsCreateUser
    \/ IdsCreateExpense
    \/ IdsDeleteExpense
    \/ IdsCreateIncome
    \/ IdsDeleteIncome
    \/ IdsCreateExpenseCategory
    \/ IdsDeleteExpenseCategory
    \/ IdsCreateExpenseSubcategory
    \/ IdsDeleteExpenseSubcategory
    \/ IdsCreateIncomeCategory
    \/ IdsDeleteIncomeCategory
    \/ IdsCreateIncomeSubcategory
    \/ IdsDeleteIncomeSubcategory
    \/ IdsCreateBudget
    \/ IdsDeleteBudget
    \/ IdsCreateBudgetAllocation
    \/ IdsDeleteBudgetAllocation
    \/ IdsUpdateUserSettings
    \/ IdsUpdateIncome
    \/ IdsUpdateIncomeCategory
    \/ IdsUpdateIncomeSubcategory

SpecIds == Init /\ [][NextIds]_vars

(***************************************************************************)
(* C20: ids come from one counter per kind of record.  Within each kind    *)
(* (user, expense, income, category, subcategory, budget, allocation)      *)
(* every id in the store is below the counter, a create gives its record   *)
(* an id that is not below the counter, hence greater than every id issued *)
(* before, and moves the counter past it; the counter never goes back, so  *)
(* an id is not issued again after its record is deleted.                  *)
(***************************************************************************)
\* One step on the map m and counter nextId of a kind, to m2 and nextId2.
IssuesFreshIds(m, nextId, m2, nextId2) ==
    /\ \A id \in DOMAIN m : id < nextId
    /\ nextId2 >= nextId
    /\ \A id \in DOMAIN m2 \ DOMAIN m :
            /\ id >= nextId
            /\ id < nextId2
            /\ m2[id].id = id

C20_IdsNeverReused ==
    [][/\ IssuesFreshIds(users, nextUserId, users', nextUserId')
       /\ IssuesFreshIds(expenses, nextExpenseId, expenses', nextExpenseId')
       /\ IssuesFreshIds(incomes, nextIncomeId, incomes', nextIncomeId')
       /\ IssuesFreshIds(expenseCategories, nextExpenseCategoryId,
                         expenseCategories', nextExpenseCategoryId')
       /\ IssuesFreshIds(expenseSubcategories, nextExpenseSubcategoryId,
                         expenseSubcategories', nextExpenseSubcategoryId')
       /\ IssuesFreshIds(incomeCategories, nextIncomeCategoryId,
                         incomeCategories', nextIncomeCategoryId')
       /\ IssuesFreshIds(incomeSubcategories, nextIncomeSubcategoryId,
                         incomeSubcategories', nextIncomeSubcategoryId')
       /\ IssuesFreshIds(budgets, nextBudgetId, budgets', nextBudgetId')
       /\ IssuesFreshIds(budgetAllocations, nextBudgetAllocationId,
                         budgetAllocations', nextBudgetAllocationId')]_vars

\* The last expense issued was deleted and an expense was created after it.
C20_Witness ==
    /\ res.op = "createExpense"
    /\ res.id \in DOMAIN expenses
    /\ res.id - 1 \notin DOMAIN expenses
    /\ res.id = nextExpenseId - 1

(***************************************************************************)
(* C21: deleteBudget(id) on a budget that exists removes that budget and   *)
(* every allocation whose budgetId is id, and nothing else: the other      *)
(* budgets, the allocations of other budgets, the expenses, categories,    *)
(* users and counters stay as they were.  On an id that does not exist it  *)
(* throws and changes nothing.                                             *)
(***************************************************************************)
C21_DeleteBudgetFrame ==
    [][res'.op = "deleteBudget" =>
            IF res'.id \in DOMAIN budgets
            THEN /\ ~res'.threw
                 /\ DOMAIN budgets' = DOMAIN budgets \ {res'.id}
                 /\ \A b \in DOMAIN budgets' : budgets'[b] = budgets[b]
                 /\ DOMAIN budgetAllocations' =
                        {a \in DOMAIN budgetAllocations :
                            budgetAllocations[a].budgetId # res'.id}
                 /\ \A a \in DOMAIN budgetAllocations' :
                        budgetAllocations'[a] = budgetAllocations[a]
                 /\ <<users, userRoles, expenses, incomes, expenseCategories,
                      expenseSubcategories, incomeCategories,
                      incomeSubcategories>>'
                        = <<users, userRoles, expenses, incomes, expenseCategories,
                            expenseSubcategories, incomeCategories,
                            incomeSubcategories>>
                 /\ counters' = counters
            ELSE res'.threw /\ store' = store]_vars

\* The demo budget has been deleted with its three allocations while an
\* allocation of another budget id stays.
C21_Witness ==
    /\ res.op = "deleteBudget"
    /\ ~res.threw
    /\ res.id \notin DOMAIN budgets
    /\ \A a \in 1..3 : a \notin DOMAIN budgetAllocations
    /\ \E a \in DOMAIN budgetAllocations : budgetAllocations[a].budgetId # res.id

(***************************************************************************)
(* The handlers of the expense categories and subcategories.               *)
(* SpecCategories runs them together with the handlers that write expenses *)
(* and allocations, up to MaxCalls requests in all.                        *)
(***************************************************************************)
\* The ids in the paths of the category and subcategory requests: a record
\* of the demo user that an expense uses, one that no expense uses, a record
\* of the administrator, the last id issued and an id not issued yet.
CategoryPathIds(nextId) == {5, 13, 19, nextId - 1, nextId}

SubcategoryPathIds(nextId) == {30, 36, 120, nextId - 1, nextId}

\* The bodies of the category requests: a name, or a body the schema rejects.
RouteCategoryInputs == {[name |-> "Coffee"], Malformed}

\* The bodies of the subcategory requests: a category of the demo user or of
\* the administrator.
RouteSubcategoryInputs == [categoryId : {12, 19}, name : {"Fuel"}] \cup {Malformed}

PostExpenseCategoryWithin(bound) ==
    /\ Received(bound)
    /\ \E u \in Callers, data \in RouteCategoryInputs :
           LET h == Request("POST /api/expense-categories", u, null, data)
           IN  /\ IF ~requireAuth(u)
                  THEN Respond(h, null, 401) /\ UNCHANGED store
                  ELSE IF data = Malformed
                  THEN Respond(h, null, 400) /\ UNCHANGED store
                  ELSE /\ createExpenseCategory(u, data)
                       /\ Respond(h, nextExpenseCategoryId, 201)

PostExpenseCategory == PostExpenseCategoryWithin(MaxCalls)

\* updateExpenseCategory throws when the category is not there any more.
PatchExpenseCategory ==
    \/ /\ Received(MaxCalls)
       /\ \E u \in Callers, id \in CategoryPathIds(nextExpenseCategoryId),
             data \in RouteCategoryInputs :
           LET h == Request("PATCH /api/expense-categories/:id", u, id, data)
               category == getExpenseCategoryById(id)
           IN  /\ UNCHANGED store
               /\ IF ~requireAuth(u) THEN Respond(h, id, 401)
                  ELSE IF category = undefined THEN Respond(h, id, 404)
                  ELSE IF ~OwnedBy(category, u) THEN Respond(h, id, 403)
                  ELSE IF data = Malformed THEN Respond(h, id, 400)
                  ELSE Await(h, "updateExpenseCategory", undefined)
    \/ \E h \in Awaiting("PATCH /api/expense-categories/:id", "updateExpenseCategory") :
        /\ UNCHANGED <<ops, seed>>
        /\ IF h.id \in DOMAIN expenseCategories
           THEN updateExpenseCategory(h.id, h.data) /\ Respond(h, h.id, 200)
           ELSE UNCHANGED store /\ Respond(h, h.id, 500)

\* deleteExpenseCategory throws when the category has expenses or
\* subcategories at the time it is called; the catch block answers 500.
DeleteExpenseCategoryWithin(bound) ==
    \/ /\ Received(bound)
       /\ \E u \in Callers, id \in CategoryPathIds(nextExpenseCategoryId) :
           LET h == Request("DELETE /api/expense-categories/:id", u, id, undefined)
               category == getExpenseCategoryById(id)
           IN  /\ UNCHANGED store
               /\ IF ~requireAuth(u) THEN Respond(h, id, 401)
                  ELSE IF category = undefined THEN Respond(h, id, 404)
                  ELSE IF ~OwnedBy(category, u) THEN Respond(h, id, 403)
                  ELSE Await(h, "deleteExpenseCategory", undefined)
    \/ \E h \in Awaiting("DELETE /api/expense-categories/:id", "deleteExpenseCategory") :
        /\ UNCHANGED <<ops, seed>>
        /\ IF ExpenseCategoryInUse(h.id)
           THEN UNCHANGED store /\ Respond(h, h.id, 500)
           ELSE deleteExpenseCategory(h.id) /\ Respond(h, h.id, 204)

DeleteExpenseCategory == DeleteExpenseCategoryWithin(MaxCalls)

PostExpenseSubcategory ==
    \/ /\ Received(MaxCalls)
       /\ \E u \in Callers, data \in RouteSubcategoryInputs :
           LET h == Request("POST /api/expense-subcategories", u, null, data)
           IN  /\ UNCHANGED store
               /\ IF ~requireAuth(u) THEN Respond(h, null, 401)
                  ELSE IF data = Malformed THEN Respond(h, null, 400)
                  ELSE IF InvalidCategory(u, data.categoryId) THEN Respond(h, null, 403)
                  ELSE Await(h, "createExpenseSubcategory", undefined)
    \/ \E h \in Awaiting("POST /api/expense-subcategories", "createExpenseSubcategory") :
        /\ UNCHANGED <<ops, seed>>
        /\ createExpenseSubcategory(h.user, h.data)
        /\ Respond(h, nextExpenseSubcategoryId, 201)

\* updateExpenseSubcategory throws when the subcategory is not there any
\* more.
PatchExpenseSubcategory ==
    \/ /\ Received(MaxCalls)
       /\ \E u \in Callers, id \in SubcategoryPathIds(nextExpenseSubcategoryId),
             data \in RouteSubcategoryInputs :
           LET h == Request("PATCH /api/expense-subcategories/:id", u, id, data)
               subcategory == getExpenseSubcategoryById(id)
           IN  /\ UNCHANGED store
               /\ IF ~requireAuth(u) THEN Respond(h, id, 401)
                  ELSE IF subcategory = undefined THEN Respond(h, id, 404)
                  ELSE IF ~OwnedBy(subcategory, u) THEN Respond(h, id, 403)
                  ELSE IF data = Malformed THEN Respond(h, id, 400)
                  ELSE Await(h, "getExpenseCategoryById", undefined)
    \/ \E h \in Awaiting("PATCH /api/expense-subcategories/:id",
                         "getExpenseCategoryById") :
        /\ UNCHANGED <<store, ops, seed>>
        /\ IF InvalidCategory(h.user, h.data.categoryId) THEN Respond(h, h.id, 403)
           ELSE Await(h, "updateExpenseSubcategory", undefined)
    \/ \E h \in Awaiting("PATCH /api/expense-subcategories/:id",
                         "updateExpenseSubcategory") :
        /\ UNCHANGED <<ops, seed>>
        /\ IF h.id \in DOMAIN expenseSubcategories
           THEN updateExpenseSubcategory(h.id, h.data) /\ Respond(h, h.id, 200)
           ELSE UNCHANGED store /\ Respond(h, h.id, 500)

\* deleteExpenseSubcategory throws when the subcategory has expenses at the
\* time it is called.
DeleteExpenseSubcategory ==
    \/ /\ Received(MaxCalls)
       /\ \E u \in Callers, id \in SubcategoryPathIds(nextExpenseSubcategoryId) :
           LET h == Request("DELETE /api/expense-subcategories/:id", u, id, undefined)
               subcategory == getExpenseSubcategoryById(id)
           IN  /\ UNCHANGED store
               /\ IF ~requireAuth(u) THEN Respond(h, id, 401)
                  ELSE IF subcategory = undefined THEN Respond(h, id, 404)
                  ELSE IF ~OwnedBy(subcategory, u) THEN Respond(h, id, 403)
                  ELSE Await(h, "deleteExpenseSubcategory", undefined)
    \/ \E h \in Awaiting("DELETE /api/expense-subcategories/:id",
                         "deleteExpenseSubcategory") :
        /\ UNCHANGED <<ops, seed>>
        /\ IF ExpenseSubcategoryInUse(h.id)
           THEN UNCHANGED store /\ Respond(h, h.id, 500)
           ELSE deleteExpenseSubcategory(h.id) /\ Respond(h, h.id, 204)

(***************************************************************************)
(* The REST handlers of incomes, income categories and income              *)
(* subcategories, of the lists, of the expense and income reports and of   *)
(* the user settings.  The handlers of incomes and their categories do     *)
(* what those of expenses do, on the maps of incomes; there is no legacy   *)
(* way to post an income.                                                  *)
(***************************************************************************)
getIncomesByUserId(userId) ==
    LET Test(income) == income.userId = userId
    IN  SelectSeq(MapValues(incomes), Test)

getIncomeById(id) == IF id \in DOMAIN incomes THEN incomes[id] ELSE undefined

getIncomeCategoryById(id) ==
    IF id \in DOMAIN incomeCategories THEN incomeCategories[id] ELSE undefined

getIncomeSubcategoryById(id) ==
    IF id \in DOMAIN incomeSubcategories THEN incomeSubcategories[id] ELSE undefined

getBudgetsByUserId(userId) ==
    LET Test(budget) == budget.userId = userId
    IN  SelectSeq(MapValues(budgets), Test)

\* !category || category.userId !== req.user.id
InvalidIncomeCategory(u, categoryId) ==
    LET category == getIncomeCategoryById(categoryId)
    IN  category = undefined \/ category.userId # u

\* !subcategory || subcategory.categoryId !== incomeData.categoryId
InvalidIncomeSubcategory(data) ==
    LET subcategory == getIncomeSubcategoryById(data.subcategoryId)
    IN  subcategory = undefined \/ subcategory.categoryId # data.categoryId

\* { ...record, categoryName: category?.name || 'Unknown' }, where category
\* is what the lookup of record.categoryId gave.
WithCategoryName(record, category) ==
    [k \in DOMAIN record \cup {"categoryName"} |->
        IF k # "categoryName" THEN record[k]
        ELSE IF category = undefined \/ category.name = "" THEN "Unknown"
        ELSE category.name]

\* { ...record, subcategoryName: subcategory?.name || null }, where
\* subcategory is what the lookup of record.subcategoryId gave, undefined
\* when the record has no subcategoryId; the empty string stands for the
\* null in the place of a name.
WithSubcategoryName(record, subcategory) ==
    [k \in DOMAIN record \cup {"subcategoryName"} |->
        IF k # "subcategoryName" THEN record[k]
        ELSE IF subcategory = undefined THEN ""
        ELSE subcategory.name]

\* The ids in the paths of the income category and subcategory requests: a
\* record of the demo user that the demo income uses, one that no income
\* uses, a record of the administrator, the last id issued and an id not
\* issued yet.
IncomeCategoryPathIds(nextId) == {1, 2, 3, nextId - 1, nextId}

IncomeSubcategoryPathIds(nextId) == {1, 2, 12, nextId - 1, nextId}

\* The bodies of the income requests: the category Wages of the demo user
\* or of the administrator, without subcategory or with the subcategory
\* Paycheck of the demo user; and a body the schema rejects.
RouteIncomeInputs ==
    [amount : {7000}, date : {MonthStart}, categoryId : {1, 3},
     subcategoryId : {null, 1}] \cup {Malformed}

\* The bodies of the income subcategory requests: the category Other of the
\* demo user or the category Wages of the administrator.
RouteIncomeSubcategoryInputs ==
    [categoryId : {2, 3}, name : {"Tips"}] \cup {Malformed}

(***************************************************************************)
(* Reports.  The timeline is cut into months of DaysPerMonth points: the   *)
(* month of the construction runs from MonthStart to the point after       *)
(* MonthEnd (MonthEnd is the first instant of its last day), point 0 is in *)
(* the month before.  The month of the construction is month currentMonth  *)
(* (1 for January) of ThisYear, whatever the year is: createDemoAccounts   *)
(* read it from the clock when it made the demo budget.  The reports of    *)
(* incomes are computed as those of expenses are, from the incomes and the *)
(* income categories.                                                      *)
(***************************************************************************)
\* The months between the month of the construction and the month of the
\* date: negative for an earlier month.
MonthsSince(date) == (date - MonthStart) \div DaysPerMonth

\* Date.getFullYear
getFullYear(date, currentMonth) ==
    ThisYear + ((currentMonth - 1 + MonthsSince(date)) \div 12)

\* Date.getMonth: 0 for the first month of a year, 11 for the last
getMonth(date, currentMonth) == (currentMonth - 1 + MonthsSince(date)) % 12

\* Mutant: the year of the expense is not compared.
RECURSIVE MonthlyTotalsOfEveryYear(_, _, _)
MonthlyTotalsOfEveryYear(userExpenses, year, currentMonth) ==
    IF userExpenses = <<>> THEN [i \in 1..12 |-> [month |-> i, total |-> 0]]
    ELSE LET before == MonthlyTotalsOfEveryYear(
                            SubSeq(userExpenses, 1, Len(userExpenses) - 1), year,
                            currentMonth)
             expense == userExpenses[Len(userExpenses)]
         IN  [before EXCEPT ![getMonth(expense.date, currentMonth) + 1].total
                                    = @ + expense.amount]

\* The array of twelve months and the loop that adds each expense of the
\* year to the entry at index getMonth().
RECURSIVE MonthlyTotals(_, _, _)
MonthlyTotals(userExpenses, year, currentMonth) ==
    IF userExpenses = <<>> THEN [i \in 1..12 |-> [month |-> i, total |-> 0]]
    ELSE LET before == MonthlyTotals(SubSeq(userExpenses, 1, Len(userExpenses) - 1),
                                     year, currentMonth)
             expense == userExpenses[Len(userExpenses)]
         IN  IF getFullYear(expense.date, currentMonth) = year
             THEN [before EXCEPT ![getMonth(expense.date, currentMonth) + 1].total
                                        = @ + expense.amount]
             ELSE before

getMonthlyExpenseTotals(userId, year, currentMonth) ==
    MonthlyTotals(getExpensesByUserId(userId), year, currentMonth)

\* categoryMap.get(expense.categoryId) || 'Uncategorized': the name of the
\* category among the user's categories, unless it is missing or empty.
CategoryNameOf(categories, categoryId) ==
    LET found == {i \in 1..Len(categories) : categories[i].id = categoryId}
    IN  IF found = {} THEN "Uncategorized"
        ELSE LET name == categories[CHOOSE i \in found : TRUE].name
             IN  IF name = "" THEN "Uncategorized" ELSE name

\* Mutant: strict comparisons, the range is open.
InReportRangeOpen(expense, startDate, endDate) ==
    expense.date > startDate /\ expense.date < endDate

\* expenseDate >= startDate && expenseDate <= endDate
InReportRange(expense, startDate, endDate) ==
    expense.date >= startDate /\ expense.date <= endDate

\* The loop that groups the filtered expenses by category name; the Map
\* keeps its entries in the order in which the names first appear.
RECURSIVE CategoryNameTotals(_, _)
CategoryNameTotals(filteredExpenses, categories) ==
    IF filteredExpenses = <<>> THEN <<>>
    ELSE LET before == CategoryNameTotals(
                            SubSeq(filteredExpenses, 1, Len(filteredExpenses) - 1),
                            categories)
             expense == filteredExpenses[Len(filteredExpenses)]
             categoryName == CategoryNameOf(categories, expense.categoryId)
             at == {i \in 1..Len(before) : before[i].category = categoryName}
         IN  IF at = {}
             THEN Append(before, [category |-> categoryName,
                                  total |-> 0 + expense.amount])
             ELSE [before EXCEPT ![CHOOSE i \in at : TRUE].total
                                        = @ + expense.amount]

\* What getCategoryExpenseTotals computes from its two locals.
CategoryExpenseTotals(userExpenses, categories, startDate, endDate) ==
    LET Test(expense) == InReportRange(expense, startDate, endDate)
    IN  CategoryNameTotals(SelectSeq(userExpenses, Test), categories)

getMonthlyIncomeTotals(userId, year, currentMonth) ==
    MonthlyTotals(getIncomesByUserId(userId), year, currentMonth)

\* What getCategoryIncomeTotals computes from its two locals.
CategoryIncomeTotals(userIncomes, categories, startDate, endDate) ==
    LET Test(income) == InReportRange(income, startDate, endDate)
    IN  CategoryNameTotals(SelectSeq(userIncomes, Test), categories)

\* The years asked of the monthly reports, and the queries of the category
\* reports: the month of the construction, or no startDate.
ReportYears == {ThisYear - 1, ThisYear}

ReportQueries ==
    {[startDate |-> MonthStart, endDate |-> MonthEnd], [endDate |-> MonthEnd]}

\* GET /api/expense-categories: one await, on the list.
GetExpenseCategories ==
    /\ Received(MaxCalls)
    /\ \E u \in Callers :
           LET h == Request("GET /api/expense-categories", u, null, undefined)
           IN  /\ UNCHANGED store
               /\ IF ~requireAuth(u) THEN Respond(h, null, 401)
                  ELSE Answer(h, null, 200, [categories |-> getExpenseCategories(u)])

\* The category is looked up when the request is received, its
\* subcategories are read one await later.
GetExpenseSubcategories ==
    \/ /\ Received(MaxCalls)
       /\ \E u \in Callers, categoryId \in CategoryPathIds(nextExpenseCategoryId) :
           LET h == Request("GET /api/expense-categories/:categoryId/subcategories",
                            u, categoryId, undefined)
               category == getExpenseCategoryById(categoryId)
           IN  /\ UNCHANGED store
               /\ IF ~requireAuth(u) THEN Respond(h, categoryId, 401)
                  ELSE IF category = undefined THEN Respond(h, categoryId, 404)
                  ELSE IF ~OwnedBy(category, u) THEN Respond(h, categoryId, 403)
                  ELSE Await(h, "getExpenseSubcategories", undefined)
    \/ \E h \in Awaiting("GET /api/expense-categories/:categoryId/subcategories",
                         "getExpenseSubcategories") :
        /\ UNCHANGED <<store, ops, seed>>
        /\ Answer(h, h.id, 200, [subcategories |-> getExpenseSubcategories(h.id)])

GetIncomeCategories ==
    /\ Received(MaxCalls)
    /\ \E u \in Callers :
           LET h == Request("GET /api/income-categories", u, null, undefined)
           IN  /\ UNCHANGED store
               /\ IF ~requireAuth(u) THEN Respond(h, null, 401)
                  ELSE Answer(h, null, 200, [categories |-> getIncomeCategories(u)])

PostIncomeCategory ==
    /\ Received(MaxCalls)
    /\ \E u \in Callers, data \in RouteCategoryInputs :
           LET h == Request("POST /api/income-categories", u, null, data)
           IN  /\ IF ~requireAuth(u)
                  THEN Respond(h, null, 401) /\ UNCHANGED store
                  ELSE IF data = Malformed
                  THEN Respond(h, null, 400) /\ UNCHANGED store
                  ELSE /\ createIncomeCategory(u, data)
                       /\ Respond(h, nextIncomeCategoryId, 201)

\* updateIncomeCategory throws when the category is not there any more.
PatchIncomeCategory ==
    \/ /\ Received(MaxCalls)
       /\ \E u \in Callers, id \in IncomeCategoryPathIds(nextIncomeCategoryId),
             data \in RouteCategoryInputs :
           LET h == Request("PATCH /api/income-categories/:id", u, id, data)
               category == getIncomeCategoryById(id)
           IN  /\ UNCHANGED store
               /\ IF ~requireAuth(u) THEN Respond(h, id, 401)
                  ELSE IF category = undefined THEN Respond(h, id, 404)
                  ELSE IF ~OwnedBy(category, u) THEN Respond(h, id, 403)
                  ELSE IF data = Malformed THEN Respond(h, id, 400)
                  ELSE Await(h, "updateIncomeCategory", undefined)
    \/ \E h \in Awaiting("PATCH /api/income-categories/:id", "updateIncomeCategory") :
        /\ UNCHANGED <<ops, seed>>
        /\ IF h.id \in DOMAIN incomeCategories
           THEN updateIncomeCategory(h.id, h.data) /\ Respond(h, h.id, 200)
           ELSE UNCHANGED store /\ Respond(h, h.id, 500)

\* deleteIncomeCategory throws when the category has incomes or
\* subcategories at the time it is called.
DeleteIncomeCategory ==
    \/ /\ Received(MaxCalls)
       /\ \E u \in Callers, id \in IncomeCategoryPathIds(nextIncomeCategoryId) :
           LET h == Request("DELETE /api/income-categories/:id", u, id, undefined)
               category == getIncomeCategoryById(id)
           IN  /\ UNCHANGED store
               /\ IF ~requireAuth(u) THEN Respond(h, id, 401)
                  ELSE IF category = undefined THEN Respond(h, id, 404)
                  ELSE IF ~OwnedBy(category, u) THEN Respond(h, id, 403)
                  ELSE Await(h, "deleteIncomeCategory", undefined)
    \/ \E h \in Awaiting("DELETE /api/income-categories/:id", "deleteIncomeCategory") :
        /\ UNCHANGED <<ops, seed>>
        /\ IF IncomeCategoryInUse(h.id)
           THEN UNCHANGED store /\ Respond(h, h.id, 500)
           ELSE deleteIncomeCategory(h.id) /\ Respond(h, h.id, 204)

GetIncomeSubcategories ==
    \/ /\ Received(MaxCalls)
       /\ \E u \in Callers, categoryId \in IncomeCategoryPathIds(nextIncomeCategoryId) :
           LET h == Request("GET /api/income-categories/:categoryId/subcategories",
                            u, categoryId, undefined)
               category == getIncomeCategoryById(categoryId)
           IN  /\ UNCHANGED store
               /\ IF ~requireAuth(u) THEN Respond(h, categoryId, 401)
                  ELSE IF category = undefined THEN Respond(h, categoryId, 404)
                  ELSE IF ~OwnedBy(category, u) THEN Respond(h, categoryId, 403)
                  ELSE Await(h, "getIncomeSubcategories", undefined)
    \/ \E h \in Awaiting("GET /api/income-categories/:categoryId/subcategories",
                         "getIncomeSubcategories") :
        /\ UNCHANGED <<store, ops, seed>>
        /\ Answer(h, h.id, 200, [subcategories |-> getIncomeSubcategories(h.id)])

PostIncomeSubcategory ==
    \/ /\ Received(MaxCalls)
       /\ \E u \in Callers, data \in RouteIncomeSubcategoryInputs :
           LET h == Request("POST /api/income-subcategories", u, null, data)
           IN  /\ UNCHANGED store
               /\ IF ~requireAuth(u) THEN Respond(h, null, 401)
                  ELSE IF data = Malformed THEN Respond(h, null, 400)
                  ELSE IF InvalidIncomeCategory(u, data.categoryId)
                  THEN Respond(h, null, 403)
                  ELSE Await(h, "createIncomeSubcategory", undefined)
    \/ \E h \in Awaiting("POST /api/income-subcategories", "createIncomeSubcategory") :
        /\ UNCHANGED <<ops, seed>>
        /\ createIncomeSubcategory(h.user, h.data)
        /\ Respond(h, nextIncomeSubcategoryId, 201)

\* updateIncomeSubcategory throws when the subcategory is not there any
\* more.
PatchIncomeSubcategory ==
    \/ /\ Received(MaxCalls)
       /\ \E u \in Callers, id \in IncomeSubcategoryPathIds(nextIncomeSubcategoryId),
             data \in RouteIncomeSubcategoryInputs :
           LET h == Request("PATCH /api/income-subcategories/:id", u, id, data)
               subcategory == getIncomeSubcategoryById(id)
           IN  /\ UNCHANGED store
               /\ IF ~requireAuth(u) THEN Respond(h, id, 401)
                  ELSE IF subcategory = undefined THEN Respond(h, id, 404)
                  ELSE IF ~OwnedBy(subcategory, u) THEN Respond(h, id, 403)
                  ELSE IF data = Malformed THEN Respond(h, id, 400)
                  ELSE Await(h, "getIncomeCategoryById", undefined)
    \/ \E h \in Awaiting("PATCH /api/income-subcategories/:id",
                         "getIncomeCategoryById") :
        /\ UNCHANGED <<store, ops, seed>>
        /\ IF InvalidIncomeCategory(h.user, h.data.categoryId)
           THEN Respond(h, h.id, 403)
           ELSE Await(h, "updateIncomeSubcategory", undefined)
    \/ \E h \in Awaiting("PATCH /api/income-subcategories/:id",
                         "updateIncomeSubcategory") :
        /\ UNCHANGED <<ops, seed>>
        /\ IF h.id \in DOMAIN incomeSubcategories
           THEN updateIncomeSubcategory(h.id, h.data) /\ Respond(h, h.id, 200)
           ELSE UNCHANGED store /\ Respond(h, h.id, 500)

\* deleteIncomeSubcategory throws when the subcategory has incomes at the
\* time it is called.
DeleteIncomeSubcategory ==
    \/ /\ Received(MaxCalls)
       /\ \E u \in Callers, id \in IncomeSubcategoryPathIds(nextIncomeSubcategoryId) :
           LET h == Request("DELETE /api/income-subcategories/:id", u, id, undefined)
               subcategory == getIncomeSubcategoryById(id)
           IN  /\ UNCHANGED store
               /\ IF ~requireAuth(u) THEN Respond(h, id, 401)
                  ELSE IF subcategory = undefined THEN Respond(h, id, 404)
                  ELSE IF ~OwnedBy(subcategory, u) THEN Respond(h, id, 403)
                  ELSE Await(h, "deleteIncomeSubcategory", undefined)
    \/ \E h \in Awaiting("DELETE /api/income-subcategories/:id",
                         "deleteIncomeSubcategory") :
        /\ UNCHANGED <<ops, seed>>
        /\ IF IncomeSubcategoryInUse(h.id)
           THEN UNCHANGED store /\ Respond(h, h.id, 500)
           ELSE deleteIncomeSubcategory(h.id) /\ Respond(h, h.id, 204)

\* GET /api/expenses: the expenses of the caller are read when the request
\* is received.  Promise.all(expenses.map(async ...)) then starts one
\* callback per expense: every callback looks its category up before the
\* first of them is resumed, and the callbacks of the expenses that have a
\* subcategory look it up when they are resumed, one after the other with
\* nothing in between.  The answer is made of the three reads.
GetExpenses ==
    \/ /\ Received(MaxCalls)
       /\ \E u \in Callers :
           LET h == Request("GET /api/expenses", u, null, undefined)
               userExpenses == getExpensesByUserId(u)
           IN  /\ UNCHANGED store
               /\ IF ~requireAuth(u) THEN Respond(h, null, 401)
                  ELSE IF userExpenses = <<>>
                  THEN Answer(h, null, 200, [expenses |-> <<>>])
                  ELSE Await(h, "getExpenseCategoryById", [expenses |-> userExpenses])
    \/ \E h \in Awaiting("GET /api/expenses", "getExpenseCategoryById") :
        LET named == [k \in 1..Len(h.value.expenses) |->
                        WithCategoryName(h.value.expenses[k],
                            getExpenseCategoryById(h.value.expenses[k].categoryId))]
        IN  /\ UNCHANGED <<store, ops, seed>>
            /\ IF \E k \in 1..Len(named) : named[k].subcategoryId # null
               THEN Await(h, "getExpenseSubcategoryById", [expenses |-> named])
               ELSE Answer(h, null, 200,
                        [expenses |-> [k \in 1..Len(named) |->
                            WithSubcategoryName(named[k], undefined)]])
    \/ \E h \in Awaiting("GET /api/expenses", "getExpenseSubcategoryById") :
        /\ UNCHANGED <<store, ops, seed>>
        /\ Answer(h, null, 200,
                [expenses |-> [k \in 1..Len(h.value.expenses) |->
                    LET expense == h.value.expenses[k]
                    IN  WithSubcategoryName(expense,
                            IF expense.subcategoryId # null
                            THEN getExpenseSubcategoryById(expense.subcategoryId)
                            ELSE undefined)]])

GetExpense ==
    /\ Received(MaxCalls)
    /\ \E u \in Callers, id \in 1..nextExpenseId :
           LET h == Request("GET /api/expenses/:id", u, id, undefined)
               expense == getExpenseById(id)
           IN  /\ UNCHANGED store
               /\ IF ~requireAuth(u) THEN Respond(h, id, 401)
                  ELSE IF expense = undefined THEN Respond(h, id, 404)
                  ELSE IF ~OwnedBy(expense, u) THEN Respond(h, id, 403)
                  ELSE Answer(h, id, 200, expense)

\* GET /api/incomes: as GET /api/expenses, on the incomes.
GetIncomes ==
    \/ /\ Received(MaxCalls)
       /\ \E u \in Callers :
           LET h == Request("GET /api/incomes", u, null, undefined)
               userIncomes == getIncomesByUserId(u)
           IN  /\ UNCHANGED store
               /\ IF ~requireAuth(u) THEN Respond(h, null, 401)
                  ELSE IF userIncomes = <<>>
                  THEN Answer(h, null, 200, [incomes |-> <<>>])
                  ELSE Await(h, "getIncomeCategoryById", [incomes |-> userIncomes])
    \/ \E h \in Awaiting("GET /api/incomes", "getIncomeCategoryById") :
        LET named == [k \in 1..Len(h.value.incomes) |->
                        WithCategoryName(h.value.incomes[k],
                            getIncomeCategoryById(h.value.incomes[k].categoryId))]
        IN  /\ UNCHANGED <<store, ops, seed>>
            /\ IF \E k \in 1..Len(named) : named[k].subcategoryId # null
               THEN Await(h, "getIncomeSubcategoryById", [incomes |-> named])
               ELSE Answer(h, null, 200,
                        [incomes |-> [k \in 1..Len(named) |->
                            WithSubcategoryName(named[k], undefined)]])
    \/ \E h \in Awaiting("GET /api/incomes", "getIncomeSubcategoryById") :
        /\ UNCHANGED <<store, ops, seed>>
        /\ Answer(h, null, 200,
                [incomes |-> [k \in 1..Len(h.value.incomes) |->
                    LET income == h.value.incomes[k]
                    IN  WithSubcategoryName(income,
                            IF income.subcategoryId # null
                            THEN getIncomeSubcategoryById(income.subcategoryId)
                            ELSE undefined)]])

\* The category is looked up when the request is received, the subcategory
\* one await later, and the income is created after a last await.
PostIncome ==
    \/ /\ Received(MaxCalls)
       /\ \E u \in Callers, data \in RouteIncomeInputs :
           LET h == Request("POST /api/incomes", u, null, data)
           IN  /\ UNCHANGED store
               /\ IF ~requireAuth(u) THEN Respond(h, null, 401)
                  ELSE IF data = Malformed THEN Respond(h, null, 400)
                  ELSE IF InvalidIncomeCategory(u, data.categoryId)
                  THEN Respond(h, null, 403)
                  ELSE IF data.subcategoryId # null
                  THEN Await(h, "getIncomeSubcategoryById", undefined)
                  ELSE Await(h, "createIncome", undefined)
    \/ \E h \in Awaiting("POST /api/incomes", "getIncomeSubcategoryById") :
        /\ UNCHANGED <<store, ops, seed>>
        /\ IF InvalidIncomeSubcategory(h.data) THEN Respond(h, null, 403)
           ELSE Await(h, "createIncome", undefined)
    \/ \E h \in Awaiting("POST /api/incomes", "createIncome") :
        /\ UNCHANGED <<ops, seed>>
        /\ createIncome(WithUser(h.data, h.user))
        /\ Respond(h, nextIncomeId, 201)

GetIncome ==
    /\ Received(MaxCalls)
    /\ \E u \in Callers, id \in 1..nextIncomeId :
           LET h == Request("GET /api/incomes/:id", u, id, undefined)
               income == getIncomeById(id)
           IN  /\ UNCHANGED store
               /\ IF ~requireAuth(u) THEN Respond(h, id, 401)
                  ELSE IF income = undefined THEN Respond(h, id, 404)
                  ELSE IF ~OwnedBy(income, u) THEN Respond(h, id, 403)
                  ELSE Answer(h, id, 200, income)

\* updateIncome throws when the income is not there any more.
PatchIncome ==
    \/ /\ Received(MaxCalls)
       /\ \E u \in Callers, id \in 1..nextIncomeId, data \in RouteIncomeInputs :
           LET h == Request("PATCH /api/incomes/:id", u, id, data)
               income == getIncomeById(id)
           IN  /\ UNCHANGED store
               /\ IF ~requireAuth(u) THEN Respond(h, id, 401)
                  ELSE IF income = undefined THEN Respond(h, id, 404)
                  ELSE IF ~OwnedBy(income, u) THEN Respond(h, id, 403)
                  ELSE IF data = Malformed THEN Respond(h, id, 400)
                  ELSE Await(h, "getIncomeCategoryById", undefined)
    \/ \E h \in Awaiting("PATCH /api/incomes/:id", "getIncomeCategoryById") :
        /\ UNCHANGED <<store, ops, seed>>
        /\ IF InvalidIncomeCategory(h.user, h.data.categoryId)
           THEN Respond(h, h.id, 403)
           ELSE IF h.data.subcategoryId # null
           THEN Await(h, "getIncomeSubcategoryById", undefined)
           ELSE Await(h, "updateIncome", undefined)
    \/ \E h \in Awaiting("PATCH /api/incomes/:id", "getIncomeSubcategoryById") :
        /\ UNCHANGED <<store, ops, seed>>
        /\ IF InvalidIncomeSubcategory(h.data) THEN Respond(h, h.id, 403)
           ELSE Await(h, "updateIncome", undefined)
    \/ \E h \in Awaiting("PATCH /api/incomes/:id", "updateIncome") :
        /\ UNCHANGED <<ops, seed>>
        /\ IF h.id \in DOMAIN incomes
           THEN updateIncome(h.id, WithUser(h.data, h.user)) /\ Respond(h, h.id, 200)
           ELSE UNCHANGED store /\ Respond(h, h.id, 500)

\* deleteIncome throws when the income is not there any more.
DeleteIncome ==
    \/ /\ Received(MaxCalls)
       /\ \E u \in Callers, id \in 1..nextIncomeId :
           LET h == Request("DELETE /api/incomes/:id", u, id, undefined)
               income == getIncomeById(id)
           IN  /\ UNCHANGED store
               /\ IF ~requireAuth(u) THEN Respond(h, id, 401)
                  ELSE IF income = undefined THEN Respond(h, id, 404)
                  ELSE IF ~OwnedBy(income, u) THEN Respond(h, id, 403)
                  ELSE Await(h, "deleteIncome", undefined)
    \/ \E h \in Awaiting("DELETE /api/incomes/:id", "deleteIncome") :
        /\ UNCHANGED <<ops, seed>>
        /\ IF h.id \in DOMAIN incomes
           THEN deleteIncome(h.id) /\ Respond(h, h.id, 204)
           ELSE UNCHANGED store /\ Respond(h, h.id, 500)

GetBudgets ==
    /\ Received(MaxCalls)
    /\ \E u \in Callers :
           LET h == Request("GET /api/budgets", u, null, undefined)
           IN  /\ UNCHANGED store
               /\ IF ~requireAuth(u) THEN Respond(h, null, 401)
                  ELSE Answer(h, null, 200, [budgets |-> getBudgetsByUserId(u)])

\* The budget is looked up when the request is received, its allocations
\* are read one await later.
GetBudgetAllocations ==
    \/ /\ Received(MaxCalls)
       /\ \E u \in Callers, budgetId \in 1..nextBudgetId :
           LET h == Request("GET /api/budgets/:budgetId/allocations",
                            u, budgetId, undefined)
               budget == getBudgetById(budgetId)
           IN  /\ UNCHANGED store
               /\ IF ~requireAuth(u) THEN Respond(h, budgetId, 401)
                  ELSE IF budget = undefined THEN Respond(h, budgetId, 404)
                  ELSE IF ~OwnedBy(budget, u) THEN Respond(h, budgetId, 403)
                  ELSE Await(h, "getBudgetAllocations", undefined)
    \/ \E h \in Awaiting("GET /api/budgets/:budgetId/allocations",
                         "getBudgetAllocations") :
        /\ UNCHANGED <<store, ops, seed>>
        /\ Answer(h, h.id, 200, [allocations |-> getBudgetAllocations(h.id)])

\* GET /api/reports/monthly-expenses/:year: getMonthlyExpenseTotals reads the
\* expenses when it is called and computes the totals from them.
GetMonthlyExpenses ==
    /\ Received(MaxCalls)
    /\ \E u \in Callers, year \in ReportYears :
           LET h == Request("GET /api/reports/monthly-expenses/:year", u, year,
                            undefined)
           IN  /\ UNCHANGED store
               /\ IF ~requireAuth(u) THEN Respond(h, year, 401)
                  ELSE Answer(h, year, 200,
                           [totals |-> getMonthlyExpenseTotals(u, year,
                                                               seed.currentMonth)])

\* GET /api/reports/category-expenses: 400 unless the query has startDate
\* and endDate.  getCategoryExpenseTotals reads the expenses when it is
\* called and the categories when it resumes from its first await.
GetCategoryExpenses ==
    \/ /\ Received(MaxCalls)
       /\ \E u \in Callers, query \in ReportQueries :
           LET h == Request("GET /api/reports/category-expenses", u, null, query)
           IN  /\ UNCHANGED store
               /\ IF ~requireAuth(u) THEN Respond(h, null, 401)
                  ELSE IF {"startDate", "endDate"} \ DOMAIN query # {}
                  THEN Respond(h, null, 400)
                  ELSE Await(h, "getExpenseCategories",
                             [expenses |-> getExpensesByUserId(u)])
    \/ \E h \in Awaiting("GET /api/reports/category-expenses",
                         "getExpenseCategories") :
        /\ UNCHANGED <<store, ops, seed>>
        /\ Answer(h, null, 200,
                [totals |-> CategoryExpenseTotals(h.value.expenses,
                                getExpenseCategories(h.user),
                                h.data.startDate, h.data.endDate)])

GetMonthlyIncomes ==
    /\ Received(MaxCalls)
    /\ \E u \in Callers, year \in ReportYears :
           LET h == Request("GET /api/reports/monthly-incomes/:year", u, year,
                            undefined)
           IN  /\ UNCHANGED store
               /\ IF ~requireAuth(u) THEN Respond(h, year, 401)
                  ELSE Answer(h, year, 200,
                           [totals |-> getMonthlyIncomeTotals(u, year,
                                                              seed.currentMonth)])

GetCategoryIncomes ==
    \/ /\ Received(MaxCalls)
       /\ \E u \in Callers, query \in ReportQueries :
           LET h == Request("GET /api/reports/category-incomes", u, null, query)
           IN  /\ UNCHANGED store
               /\ IF ~requireAuth(u) THEN Respond(h, null, 401)
                  ELSE IF {"startDate", "endDate"} \ DOMAIN query # {}
                  THEN Respond(h, null, 400)
                  ELSE Await(h, "getIncomeCategories",
                             [incomes |-> getIncomesByUserId(u)])
    \/ \E h \in Awaiting("GET /api/reports/category-incomes",
                         "getIncomeCategories") :
        /\ UNCHANGED <<store, ops, seed>>
        /\ Answer(h, null, 200,
                [totals |-> CategoryIncomeTotals(h.value.incomes,
                                getIncomeCategories(h.user),
                                h.data.startDate, h.data.endDate)])

\* PATCH /api/user/settings: updateUserSettings throws when there is no
\* user req.user.id.  The answer is the user as it is stored then.
PatchUserSettings ==
    /\ Received(MaxCalls)
    /\ \E u \in Callers, currency \in {"USD", ""} :
           LET h == Request("PATCH /api/user/settings", u, null,
                            [currency |-> currency])
           IN  /\ IF ~requireAuth(u)
                  THEN Respond(h, null, 401) /\ UNCHANGED store
                  ELSE IF u \notin DOMAIN users
                  THEN Respond(h, null, 500) /\ UNCHANGED store
                  ELSE /\ updateUserSettings(u, h.data)
                       /\ Answer(h, null, 200, users'[u])

(***************************************************************************)
(* Spec: the forty-one routes behind requireAuth, up to MaxCalls requests  *)
(* with up to MaxInFlight of them in flight, after the construction.       *)
(***************************************************************************)
Next ==
    \/ ResumeCreateDemoAccountsInFebruary
    \/ GetBudget
    \/ GetBudgetPerformanceReport
    \/ GetExpenseCategories
    \/ PostExpenseCategory
    \/ PatchExpenseCategory
    \/ DeleteExpenseCategory
    \/ GetExpenseSubcategories
    \/ PostExpenseSubcategory
    \/ PatchExpenseSubcategory
    \/ DeleteExpenseSubcategory
    \/ GetIncomeCategories
    \/ PostIncomeCategory
    \/ PatchIncomeCategory
    \/ DeleteIncomeCategory
    \/ GetIncomeSubcategories
    \/ PostIncomeSubcategory
    \/ PatchIncomeSubcategory
    \/ DeleteIncomeSubcategory
    \/ GetExpenses
    \/ PostExpense
    \/ GetExpense
    \/ PatchExpense
    \/ DeleteExpense
    \/ GetIncomes
    \/ PostIncome
    \/ GetIncome
    \/ PatchIncome
    \/ DeleteIncome
    \/ GetBudgets
    \/ PostBudget
    \/ PatchBudget
    \/ DeleteBudget
    \/ GetBudgetAllocations
    \/ PostBudgetAllocation
    \/ PatchBudgetAllocation
    \/ DeleteBudgetAllocation
    \/ GetMonthlyExpenses
    \/ GetCategoryExpenses
    \/ GetMonthlyIncomes
    \/ GetCategoryIncomes
    \/ PatchUserSettings

Spec == Init /\ [][Next]_vars

(***************************************************************************)
(* SpecCategories: the routes of the categories and subcategories, of      *)
(* expenses and of incomes, with the routes that write expenses and        *)
(* allocations.                                                            *)
(***************************************************************************)
NextCategories ==
    \/ ResumeCreateDemoAccountsInFebruary
    \/ GetExpenseCategories
    \/ PostExpenseCategory
    \/ PatchExpenseCategory
    \/ DeleteExpenseCategory
    \/ GetExpenseSubcategories
    \/ PostExpenseSubcategory
    \/ PatchExpenseSubcategory
    \/ DeleteExpenseSubcategory
    \/ GetIncomeCategories
    \/ PostIncomeCategory
    \/ PatchIncomeCategory
    \/ DeleteIncomeCategory
    \/ GetIncomeSubcategories
    \/ PostIncomeSubcategory
    \/ PatchIncomeSubcategory
    \/ DeleteIncomeSubcategory
    \/ PostExpense
    \/ PatchExpense
    \/ DeleteExpense
    \/ PostBudgetAllocation

SpecCategories == Init /\ [][NextCategories]_vars

(***************************************************************************)
(* The requests that make a category, allocate it in a budget or put an    *)
(* expense in it, and delete it again: up to MaxRequests requests.  The    *)
(* bodies of the allocations name a default category of the demo user or   *)
(* the category made last, those of the expenses the category made last.   *)
(***************************************************************************)
NextAllocatedCategories ==
    \/ ResumeCreateDemoAccountsInFebruary
    \/ PostExpenseCategoryWithin(MaxRequests)
    \/ PostExpenseWithin(MaxRequests,
            [amount : {7000}, date : {MonthStart},
             categoryId : {nextExpenseCategoryId - 1}, subcategoryId : {null}])
    \/ PostBudgetAllocationWithin(MaxRequests,
            [budgetId : {1}, categoryId : {5, nextExpenseCategoryId - 1},
             subcategoryId : {null}, amount : {7000}])
    \/ DeleteExpenseCategoryWithin(MaxRequests)

SpecAllocatedCategories == Init /\ [][NextAllocatedCategories]_vars

CategoriesNamed(u, categoryName) ==
    {c \in DOMAIN expenseCategories :
        /\ expenseCategories[c].userId = u
        /\ toLowerCase[expenseCategories[c].name] = toLowerCase[categoryName]}

\* The step is one of a legacy request that got past requireAuth.
LegacyStep ==
    /\ res'.op \in {"POST /api/expenses", "PATCH /api/expenses/:id"}
    /\ res'.user # null
    /\ "category" \in DOMAIN res'.value

\* The step calls createLegacyExpense or updateLegacyExpense.
Resolves ==
    /\ LegacyStep
    /\ \/ res'.op = "POST /api/expenses" /\ res'.pc = "request"
       \/ res'.op = "PATCH /api/expenses/:id" /\ res'.pc = "updateLegacyExpense"

\* The step answers that the expense is stored.
Stores == LegacyStep /\ res'.status \in {200, 201}

C23_LegacyResolvedOnce ==
    [][LET created == DOMAIN expenseCategories' \ DOMAIN expenseCategories
           u == res'.user
           categoryId == res'.value.categoryId
       IN  /\ LegacyStep =>
                /\ \A c \in DOMAIN expenseCategories :
                        /\ c \in DOMAIN expenseCategories'
                        /\ expenseCategories'[c] = expenseCategories[c]
                /\ ~Resolves => created = {}
           /\ Resolves =>
                /\ IF CategoriesNamed(u, res'.value.category) # {}
                   THEN /\ created = {}
                        /\ categoryId \in CategoriesNamed(u, res'.value.category)
                        /\ res'.status # 0
                   ELSE /\ created = {categoryId}
                        /\ res'.status = 0
                /\ expenseCategories'[categoryId].userId = u
           /\ Stores => expenses'[res'.id].categoryId = categoryId
       ]_vars

\* A legacy request of the administrator named "everyday", a name both
\* users have a category for: the expense is in the administrator's.
C23_Witness ==
    /\ res.op = "POST /api/expenses"
    /\ res.pc = "request"
    /\ res.status = 201
    /\ res.user = AdminId
    /\ expenses[res.id].categoryId = 19
    /\ toLowerCase[expenseCategories[5].name] = toLowerCase[expenseCategories[19].name]
    /\ expenseCategories[5].userId # AdminId

(***************************************************************************)
(* SpecReports calls the two expense reports of the data layer between     *)
(* calls that create expenses and categories; the calls that create run    *)
(* while getCategoryExpenseTotals awaits, too.                             *)
(***************************************************************************)
\* Expenses dated the first day of the month after the construction and
\* the first day of the same month a year later (the demo expenses are
\* dated in the month of the construction or in the month before), in a
\* category of the demo user and in the category that the next
\* createExpenseCategory makes.
ReportCreateExpense ==
    \E userId \in UserIds,
       data \in [amount : {7000},
                 date : {MonthStart + DaysPerMonth, MonthStart + 12 * DaysPerMonth},
                 categoryId : {5, 29}, subcategoryId : {null}] :
        /\ Seeded
        /\ ops < MaxCalls
        /\ createExpense(WithUser(data, userId))
        /\ ops' = ops + 1 /\ UNCHANGED <<frame, handlers, seed>>
        /\ res' = Outcome("createExpense", nextExpenseId, FALSE)

\* A second category of the demo user with the name of its first, or with
\* an empty name.
ReportCreateExpenseCategory ==
    \E name \in {"Everyday", ""} :
        /\ Seeded
        /\ ops < MaxCalls
        /\ createExpenseCategory(1, [name |-> name])
        /\ ops' = ops + 1 /\ UNCHANGED <<frame, handlers, seed>>
        /\ res' = Outcome("createExpenseCategory", nextExpenseCategoryId, FALSE)

\* getMonthlyExpenseTotals awaits once: the expenses are read when it is
\* called and the totals are computed from them, whatever is written
\* before it returns.
CallGetMonthlyExpenseTotals ==
    \E userId \in UserIds, year \in {ThisYear - 1, ThisYear, ThisYear + 1} :
        /\ Seeded
        /\ UNCHANGED <<store, ops, frame, handlers, seed>>
        /\ res' = [op |-> "getMonthlyExpenseTotals", user |-> null, id |-> null,
                   status |-> 0, called |-> TRUE, threw |-> FALSE,
                   value |-> [userId |-> userId, year |-> year,
                              totals |-> getMonthlyExpenseTotals(userId, year,
                                                            seed.currentMonth)],
                   pc |-> "request"]

\* getCategoryExpenseTotals awaits twice: the expenses are read when it is
\* called, the categories when it resumes from the first await, and the
\* calls of other callers run in between.  value keeps the arguments and
\* the expenses read.
CallGetCategoryExpenseTotals ==
    \/ /\ ReceivedGet
       /\ \E userId \in UserIds, startDate \in {MonthStart - 1, MonthStart + 1},
             endDate \in {MonthStart + DaysPerMonth} :
           LET h == Request("getCategoryExpenseTotals", null, null, undefined)
           IN  /\ UNCHANGED store
               /\ Await(h, "getExpenseCategories",
                        [userId |-> userId, startDate |-> startDate,
                         endDate |-> endDate,
                         expenses |-> getExpensesByUserId(userId)])
    \/ \E h \in Awaiting("getCategoryExpenseTotals", "getExpenseCategories") :
        /\ UNCHANGED <<store, ops, seed>>
        /\ Answer(h, null, 0,
                  [userId |-> h.value.userId, startDate |-> h.value.startDate,
                   endDate |-> h.value.endDate, expenses |-> h.value.expenses,
                   totals |-> CategoryExpenseTotals(h.value.expenses,
                                    getExpenseCategories(h.value.userId),
                                    h.value.startDate, h.value.endDate)])

NextReports ==
    \/ ResumeCreateDemoAccountsAt({<<2, 1>>}, {1, 2, 12})
    \/ ReportCreateExpense
    \/ ReportCreateExpenseCategory
    \/ CallGetMonthlyExpenseTotals
    \/ CallGetCategoryExpenseTotals

SpecReports == Init /\ [][NextReports]_vars

(***************************************************************************)
(* C24: getMonthlyExpenseTotals(userId, year) returns exactly twelve       *)
(* entries, for the months 1 to 12 in order, and the total of month m is   *)
(* the sum of the amounts of that user's expenses dated in month m of that *)
(* year; expenses of other years and of other users contribute nothing.    *)
(***************************************************************************)
\* The first day of month m of the year.
FirstDayOf(year, m) ==
    MonthStart + ((year - ThisYear) * 12 + (m - seed.currentMonth)) * DaysPerMonth

\* The expenses of the user dated in month m of the year.
ExpensesOfMonth(userId, year, m) ==
    {e \in DOMAIN expenses :
        /\ expenses[e].userId = userId
        /\ expenses[e].date >= FirstDayOf(year, m)
        /\ expenses[e].date < FirstDayOf(year, m) + DaysPerMonth}

C24_TwelveMonthlyTotals ==
    res.op = "getMonthlyExpenseTotals" =>
        /\ Len(res.value.totals) = 12
        /\ \A m \in 1..12 :
            /\ res.value.totals[m].month = m
            /\ res.value.totals[m].total =
                    SumOfAmounts(expenses,
                        ExpensesOfMonth(res.value.userId, res.value.year, m))

\* The report of a year for a user with an expense in the first month of
\* that year, one in another year and one of the other user in that month.
C24_Witness ==
    /\ res.op = "getMonthlyExpenseTotals"
    /\ res.value.totals[1].total > 0
    /\ \E e \in DOMAIN expenses :
            /\ expenses[e].userId = res.value.userId
            /\ expenses[e].date < FirstDayOf(res.value.year, 1)
    /\ \E e \in DOMAIN expenses :
            /\ expenses[e].userId # res.value.userId
            /\ expenses[e].date >= FirstDayOf(res.value.year, 1)
            /\ expenses[e].date < FirstDayOf(res.value.year, 13)

(***************************************************************************)
(* C25: getCategoryExpenseTotals(userId, startDate, endDate) conserves the *)
(* total: the returned totals add up to the sum of the amounts of the      *)
(* user's expenses with startDate <= date <= endDate, each of these        *)
(* expenses is counted in exactly one entry (the entry of its category     *)
(* name, or of 'Uncategorized'), and no entry is without an expense.       *)
(***************************************************************************)
\* The expenses the report is about, by their place among the expenses
\* the method read.
ExpensesInRange(v) ==
    {k \in 1..Len(v.expenses) :
        /\ v.expenses[k].date >= v.startDate
        /\ v.expenses[k].date <= v.endDate}

\* The entry an expense belongs to: the name of its category when the user
\* has that category and it has a name.
LabelOf(userId, expense) ==
    LET c == expense.categoryId
    IN  IF /\ c \in DOMAIN expenseCategories
           /\ expenseCategories[c].userId = userId
           /\ expenseCategories[c].name # ""
        THEN expenseCategories[c].name
        ELSE "Uncategorized"

RECURSIVE SumOfTotals(_)
SumOfTotals(totals) ==
    IF totals = <<>> THEN 0 ELSE Head(totals).total + SumOfTotals(Tail(totals))

\* The first conjunct is about the call, which reads the expenses of the
\* user; the second about the return, which reads the categories.
C25_CategoryTotalsConserved ==
    /\ (res.op = "getCategoryExpenseTotals" /\ res.pc = "request") =>
            res.value.expenses = getExpensesByUserId(res.value.userId)
    /\ (res.op = "getCategoryExpenseTotals" /\ res.pc = "getExpenseCategories") =>
        LET v == res.value
            Contributing(i) ==
                {k \in ExpensesInRange(v) :
                    LabelOf(v.userId, v.expenses[k]) = v.totals[i].category}
        IN  /\ SumOfTotals(v.totals) = SumOfAmounts(v.expenses, ExpensesInRange(v))
            /\ \A i, j \in 1..Len(v.totals) :
                    v.totals[i].category = v.totals[j].category => i = j
            /\ \A k \in ExpensesInRange(v) :
                    \E i \in 1..Len(v.totals) :
                        v.totals[i].category = LabelOf(v.userId, v.expenses[k])
            /\ \A i \in 1..Len(v.totals) :
                    /\ Contributing(i) # {}
                    /\ v.totals[i].total = SumOfAmounts(v.expenses, Contributing(i))

\* A report with an entry 'Uncategorized' and an entry of a category name,
\* for a user who also has an expense outside the range; an expense of the
\* user was created while the method awaited.
C25_Witness ==
    /\ res.op = "getCategoryExpenseTotals"
    /\ res.pc = "getExpenseCategories"
    /\ \E i, j \in 1..Len(res.value.totals) :
            /\ res.value.totals[i].category = "Uncategorized"
            /\ res.value.totals[j].category # "Uncategorized"
    /\ \E k \in 1..Len(res.value.expenses) : k \notin ExpensesInRange(res.value)
    /\ res.value.expenses # getExpensesByUserId(res.value.userId)

(***************************************************************************)
(* C26: while no expense has a negative amount, the top-level spent of a   *)
(* performance report never exceeds the sum of the amounts of the owner's  *)
(* expenses dated within the budget's interval: no expense is counted more *)
(* than once, also when several allocations of the budget share a          *)
(* categoryId.                                                             *)
(***************************************************************************)
C26_SpentWithinExpenses ==
    (Returned /\ \A e \in DOMAIN expenses : expenses[e].amount >= 0) =>
        res.value.spent <=
            SumOfAmounts(expenses,
                {e \in DOMAIN expenses :
                    /\ expenses[e].userId = budgets[res.id].userId
                    /\ Inside(budgets[res.id], e)})

(***************************************************************************)
(* C27: the spent of an allocation depends on the allocation's categoryId  *)
(* only.  The subcategoryId of the allocation and the subcategoryId of the *)
(* expenses have no effect: an allocation made for one subcategory is      *)
(* charged with all the in-range expenses of its whole category, and two   *)
(* allocations of one category are charged the same.                       *)
(***************************************************************************)
C27_SpentIgnoresSubcategories ==
    Returned =>
        /\ \A k \in Entries :
                res.value.categories[k].spent =
                    SumOfAmounts(expenses,
                        {e \in DOMAIN expenses :
                            /\ expenses[e].userId = budgets[res.id].userId
                            /\ expenses[e].categoryId = AllocationOfEntry(k).categoryId
                            /\ Inside(budgets[res.id], e)})
        /\ \A k, l \in Entries :
                AllocationOfEntry(k).categoryId = AllocationOfEntry(l).categoryId
                    => res.value.categories[k].spent = res.value.categories[l].spent

\* A report with an allocation for one subcategory that is charged with an
\* expense of another subcategory of its category.
C27_Witness ==
    /\ Returned
    /\ \E k \in Entries :
        /\ AllocationOfEntry(k).subcategoryId # null
        /\ res.value.categories[k].spent > 0
        /\ \E e \in DOMAIN expenses :
            /\ expenses[e].userId = budgets[res.id].userId
            /\ expenses[e].categoryId = AllocationOfEntry(k).categoryId
            /\ Inside(budgets[res.id], e)
            /\ expenses[e].subcategoryId # AllocationOfEntry(k).subcategoryId

(***************************************************************************)
(* C28: after any sequence of completed requests, the categoryId of every  *)
(* budget allocation is the id of an expense category that exists and that *)
(* belongs to the owner of the allocation's budget: a category that an     *)
(* allocation refers to cannot disappear.                                  *)
(***************************************************************************)
C28_AllocationCategoryOfBudgetOwner ==
    InFlight = 0 =>
        \A a \in DOMAIN budgetAllocations :
            LET allocation == budgetAllocations[a]
            IN  /\ allocation.categoryId \in DOMAIN expenseCategories
                /\ allocation.budgetId \in DOMAIN budgets =>
                        expenseCategories[allocation.categoryId].userId
                            = budgets[allocation.budgetId].userId

(***************************************************************************)
(* C29: every stored expense whose subcategoryId is not null refers to a   *)
(* subcategory that exists and whose categoryId is the categoryId of the   *)
(* expense.                                                                *)
(***************************************************************************)
C29_ExpenseSubcategoryOfCategory ==
    InFlight = 0 =>
        \A e \in DOMAIN expenses :
            expenses[e].subcategoryId # null =>
                /\ expenses[e].subcategoryId \in DOMAIN expenseSubcategories
                /\ expenseSubcategories[expenses[e].subcategoryId].categoryId
                        = expenses[e].categoryId

(***************************************************************************)
(* C30: the two records of a user's role always agree.  After any sequence *)
(* of createUser and setUserRole calls, the role field of every user       *)
(* record is what getUserRole answers for that user, and the role map has  *)
(* entries for existing users only.                                        *)
(***************************************************************************)
C30_RoleRecordsAgree ==
    /\ \A u \in DOMAIN users : users[u].role = getUserRole(u)
    /\ DOMAIN userRoles \subseteq DOMAIN users

====
